---- MODULE Spec2Model ----
(***************************************************************************)
(* Rehilo: the Context Engine (packages/domain/src/context-engine.ts) and  *)
(* the 2D layout engine (Graph2DLayout) over the node graph.               *)
(*                                                                         *)
(* Strings that the code transforms (tags, title, content) are sequences   *)
(* of one-character strings, so that trim, toLowerCase and the tokenizer   *)
(* are computed and not assumed.  Scores are kept as integers scaled by    *)
(* 10000 (the code rounds to 4 decimals).  A point is                      *)
(* (x + r*cos(2*pi*k/n), y + r*sin(2*pi*k/n)) kept as [x, y, r, k, n].     *)
(***************************************************************************)
EXTENDS Integers, Sequences, FiniteSets, TLC

VARIABLES allNodes, pc, nodeId, options, focal, queue, descendants, view,
          nodePositions, hierarchyParents, hierarchyChildren, relationEdges,
          crossWorkspaceEdges, lpc, call, hierKeys, posLog, layoutResult,
          allEdges, layoutConfig, callsLeft,
          nodesById, connectionsById, created, connected, graphCallsLeft,
          localDb, serverDb, lastSync, spc, changes, remoteNodes, merged,
          serverTime, clock

vars == <<allNodes, pc, nodeId, options, focal, queue, descendants, view,
          nodePositions, hierarchyParents, hierarchyChildren, relationEdges,
          crossWorkspaceEdges, lpc, call, hierKeys, posLog, layoutResult,
          allEdges, layoutConfig, callsLeft,
          nodesById, connectionsById, created, connected, graphCallsLeft,
          localDb, serverDb, lastSync, spc, changes, remoteNodes, merged,
          serverTime, clock>>

ctxVars == <<pc, nodeId, options, focal, queue, descendants, view>>

layoutVars == <<nodePositions, hierarchyParents, hierarchyChildren, relationEdges,
                crossWorkspaceEdges, lpc, call, hierKeys, posLog, layoutResult,
                allEdges, layoutConfig, callsLeft>>

\* The canvas graph state of apps/web/src/core/node-engine.ts.
graphVars == <<nodesById, connectionsById, created, connected, graphCallsLeft>>

\* The offline repository, the sync server's store and one run of syncWorkspace.
syncVars == <<localDb, serverDb, lastSync, spc, changes, remoteNodes, merged,
              serverTime, clock>>

storeVars == <<graphVars, syncVars>>

(***************************************************************************)
(* Bounds of the model.                                                    *)
(***************************************************************************)
NumNodes == 3

NumLayoutNodes == 4

MaxVisit == 5

MaxDepthLimit == 2

MaxCircleNodes == 11

NumEngineNodes == 3

MaxEdges == 4

MaxCalls == 2

MaxRepeatEdges == 2

MaxZoneNodes == 9

NumRankNodes == 4

(***************************************************************************)
(* Generic sequence helpers (Array.prototype.filter / map / slice / sort). *)
(***************************************************************************)
Null == "null"

RECURSIVE SelectFlagged(_, _)
SelectFlagged(s, flags) ==
  IF s = <<>> THEN <<>>
  ELSE (IF Head(flags) THEN <<Head(s)>> ELSE <<>>) \o SelectFlagged(Tail(s), Tail(flags))

Filter(s, Keep(_)) == SelectFlagged(s, [i \in DOMAIN s |-> Keep(s[i])])

Range(s) == {s[i] : i \in DOMAIN s}

\* Array.prototype.map
Map(s, F(_)) == [i \in DOMAIN s |-> F(s[i])]

FirstOf(hits) == IF hits = <<>> THEN <<>> ELSE <<hits[1]>>

LastOf(hits) == IF hits = <<>> THEN <<>> ELSE <<hits[Len(hits)]>>

Min2(a, b) == IF a <= b THEN a ELSE b

Max2(a, b) == IF a >= b THEN a ELSE b

\* Array.prototype.slice(0, n): a negative n counts from the end.
SliceTo(s, n) ==
  LET end == IF n >= 0 THEN Min2(n, Len(s)) ELSE Max2(Len(s) + n, 0)
  IN  SubSeq(s, 1, end)

(***************************************************************************)
(* Strings as character sequences.                                         *)
(***************************************************************************)
toLowerCase(c) ==
  CASE c = "A" -> "a"
    [] c = "B" -> "b"
    [] c = "C" -> "c"
    [] c = "D" -> "d"
    [] OTHER -> c

LowerStr(s) == [i \in DOMAIN s |-> toLowerCase(s[i])]

IsSpace(c) == c = " "

RECURSIVE TrimLeft(_)
TrimLeft(s) ==
  IF s = <<>> THEN s
  ELSE IF IsSpace(Head(s)) THEN TrimLeft(Tail(s)) ELSE s

RECURSIVE TrimRight(_)
TrimRight(s) ==
  IF s = <<>> THEN s
  ELSE IF IsSpace(s[Len(s)]) THEN TrimRight(SubSeq(s, 1, Len(s) - 1)) ELSE s

trim(s) == TrimRight(TrimLeft(s))

\* The character class [a-z0-9\s] of the tokenizer, after lower-casing.
TokenChars == {"a", "b", "c", "d", "1", " "}

\* split(/\s+/) followed by the length filter: the words of s, as a set.
RECURSIVE Words(_, _)
Words(s, cur) ==
  IF s = <<>> THEN {cur}
  ELSE IF IsSpace(Head(s)) THEN {cur} \cup Words(Tail(s), <<>>)
       ELSE Words(Tail(s), Append(cur, Head(s)))


ReplaceNonToken(s) ==
  [i \in DOMAIN s |-> IF s[i] \in TokenChars THEN s[i] ELSE " "]

(***************************************************************************)
(* Node entities (packages/domain/src/node.ts).  updatedAt is the pair     *)
(* (does Date.parse accept it, the milliseconds it parses to).             *)
(***************************************************************************)
Ids == <<"a", "b", "c", "d", "e", "f", "g", "h", "i", "j", "k", "l", "m", "n">>

NodeIds == {Ids[i] : i \in 1..NumNodes}

MissingId == "zz"

parseDateMillis(value) == IF value.valid THEN value.ms ELSE 0

\* normalizeRelationIds / uniqueStrings: first occurrences, in order (ids are
\* whole, non-blank strings: trimming leaves them as they are).
AppendNew(init, last) == IF last \in Range(init) THEN init ELSE Append(init, last)

RECURSIVE uniqueStrings(_)
uniqueStrings(values) ==
  IF values = <<>> THEN <<>>
  ELSE AppendNew(uniqueStrings(SubSeq(values, 1, Len(values) - 1)), values[Len(values)])

getNodeRelationIds(node) == uniqueStrings(node.relationIds \o node.relations)

(***************************************************************************)
(* context-engine.ts: the helpers.                                         *)
(***************************************************************************)
DEFAULT_OPTIONS ==
  [recentlyConnectedLimit |-> 8, suggestionLimit |-> 8, minSuggestionScore |-> 1500]

OptionKeys == DOMAIN DEFAULT_OPTIONS

\* {...DEFAULT_OPTIONS, ...options}
Config(opts) ==
  [k \in OptionKeys |-> IF k \in DOMAIN opts THEN opts[k] ELSE DEFAULT_OPTIONS[k]]

tokenizeNode(node) ==
  LET source == LowerStr(node.title \o <<" ">> \o node.content)
  IN  {w \in Words(ReplaceNonToken(source), <<>>) : Len(w) >= 3}

\* new Set(values.map(v => v.trim().toLowerCase()).filter(Boolean))
toStringSet(values) ==
  {LowerStr(trim(values[i])) : i \in DOMAIN values} \ {<<>>}

intersectionFromSets(left, right) == {v \in left : v \in right}

\* The overlap measured against the smaller set instead of the union.
jaccardSimilarity_OverSmaller(left, right) ==
  IF left = {} \/ right = {} THEN [num |-> 0, den |-> 1]
  ELSE [num |-> Cardinality(intersectionFromSets(left, right)),
        den |-> Min2(Cardinality(left), Cardinality(right))]

\* |left /\ right| / |left \/ right| as a fraction; 0 when the union is empty.
jaccardSimilarity(left, right) ==
  LET union == left \cup right
  IN  IF Cardinality(union) = 0 THEN [num |-> 0, den |-> 1]
      ELSE [num |-> Cardinality(intersectionFromSets(left, right)),
            den |-> Cardinality(union)]

\* A score that weighs tags and keywords alike.
Score_EqualWeights(tagScore, keywordScore) ==
  LET numer == 5000 * tagScore.num * keywordScore.den
               + 5000 * keywordScore.num * tagScore.den
      denom == tagScore.den * keywordScore.den
  IN  (2 * numer + denom) \div (2 * denom)

\* Number((tagScore * 0.65 + keywordScore * 0.35).toFixed(4)), times 10000.
\* (No exact half occurs for unions of fewer than 8 elements.)
Score(tagScore, keywordScore) ==
  LET numer == 6500 * tagScore.num * keywordScore.den
               + 3500 * keywordScore.num * tagScore.den
      denom == tagScore.den * keywordScore.den
  IN  (2 * numer + denom) \div (2 * denom)

\* intersectStrings: lower-cased but not trimmed, kept in left order.
intersectStrings(left, right) ==
  LET InRight(v) == \E i \in DOMAIN right : LowerStr(right[i]) = v
  IN  Filter(Map(left, LowerStr), InRight)

AppendNewNode(init, last) ==
  IF last.id \in {init[i].id : i \in DOMAIN init} THEN init ELSE Append(init, last)

RECURSIVE uniqueNodes(_)
uniqueNodes(nodes) ==
  IF nodes = <<>> THEN <<>>
  ELSE AppendNewNode(uniqueNodes(SubSeq(nodes, 1, Len(nodes) - 1)), nodes[Len(nodes)])

\* Array.prototype.sort is stable: index x goes after every index already
\* placed whose element does not compare greater than the element at x.
RECURSIVE InsertSorted(_, _, _)
InsertSorted(order, x, cmp) ==
  IF order = <<>> THEN <<x>>
  ELSE IF cmp[order[Len(order)]][x] <= 0 THEN Append(order, x)
       ELSE Append(InsertSorted(SubSeq(order, 1, Len(order) - 1), x, cmp),
                   order[Len(order)])

Permute(s, order) == [k \in DOMAIN s |-> s[order[k]]]

RECURSIVE SortOrder(_, _)
SortOrder(n, cmp) ==
  IF n = 0 THEN <<>> ELSE InsertSorted(SortOrder(n - 1, cmp), n, cmp)

SortBy(s, Cmp(_, _)) ==
  Permute(s, SortOrder(Len(s), [i \in DOMAIN s |-> [j \in DOMAIN s |-> Cmp(s[i], s[j])]]))

ByUpdatedAtDesc(left, right) ==
  parseDateMillis(right.updatedAt) - parseDateMillis(left.updatedAt)

\* The order by score alone.
BySuggestion_ScoreOnly(left, right) == right.score - left.score

\* lines 132-137: the comparator of the ranking
BySuggestion(left, right) ==
  IF right.score # left.score THEN right.score - left.score
  ELSE parseDateMillis(right.node.updatedAt) - parseDateMillis(left.node.updatedAt)

(***************************************************************************)
(* buildNodeContext, line by line.  A result that may be null is a         *)
(* sequence of length 0 (null) or 1.                                       *)
(***************************************************************************)
\* A lookup that falls back to the first node when no id matches.
FindNode_OrFirst(id, nodes) ==
  LET IsIt(candidate) == candidate.id = id
  IN  FirstOf(Filter(nodes, IsIt) \o nodes)

\* allNodes.find(candidate => candidate.id === nodeId)
FindNode(id, nodes) ==
  LET IsIt(candidate) == candidate.id = id
  IN  FirstOf(Filter(nodes, IsIt))

\* No restriction to the focal node's workspace.
WorkspaceNodes_Unfiltered(node, nodes) == nodes

WorkspaceNodes(node, nodes) ==
  LET Same(candidate) == candidate.workspaceId = node.workspaceId
  IN  Filter(nodes, Same)

\* new Map(workspaceNodes.map(c => [c.id, c])).get(id)
NodesByIdGet(workspaceNodes, id) ==
  LET IsIt(candidate) == candidate.id = id
  IN  LastOf(Filter(workspaceNodes, IsIt))

RECURSIVE FlatMapGet(_, _)
FlatMapGet(workspaceNodes, ids) ==
  IF ids = <<>> THEN <<>>
  ELSE NodesByIdGet(workspaceNodes, Head(ids)) \o FlatMapGet(workspaceNodes, Tail(ids))

\* The related nodes in the order of the workspace list.
DirectRelations_InNodeOrder(node, workspaceNodes) ==
  LET Named(candidate) == candidate.id \in Range(node.relations)
  IN  Filter(workspaceNodes, Named)

\* lines 52-54
DirectRelations(node, workspaceNodes) == FlatMapGet(workspaceNodes, node.relations)

\* Backlinks read off the focal node's own list instead of a reverse index.
Backlinks_Outgoing(node, workspaceNodes) ==
  LET Named(candidate) == candidate.id \in Range(node.relations)
  IN  Filter(workspaceNodes, Named)

Backlinks(node, workspaceNodes) ==
  LET PointsHere(candidate) == node.id \in Range(candidate.relations)
  IN  Filter(workspaceNodes, PointsHere)

SharedTagNodes(node, workspaceNodes) ==
  LET Shares(candidate) ==
        /\ candidate.id # node.id
        /\ Len(intersectStrings(node.tags, candidate.tags)) > 0
  IN  Filter(workspaceNodes, Shares)

RecentlyConnectedNodes(node, workspaceNodes, limit) ==
  SliceTo(SortBy(uniqueNodes(DirectRelations(node, workspaceNodes)
                             \o Backlinks(node, workspaceNodes)),
                 ByUpdatedAtDesc),
          limit)

ParentNode(node, workspaceNodes) ==
  IF node.parentId # Null THEN NodesByIdGet(workspaceNodes, node.parentId) ELSE <<>>

ChildNodes(node, workspaceNodes) ==
  LET IsChild(candidate) == candidate.parentId = node.id
  IN  Filter(workspaceNodes, IsChild)

IdsOf(nodes) == {nodes[i].id : i \in DOMAIN nodes}

\* The exclusion set without the children.
AlreadyConnectedIds_NoChildren(node, workspaceNodes) ==
  {node.id}
    \cup IdsOf(DirectRelations(node, workspaceNodes))
    \cup IdsOf(Backlinks(node, workspaceNodes))
    \cup IdsOf(ParentNode(node, workspaceNodes))

AlreadyConnectedIds(node, workspaceNodes) ==
  {node.id}
    \cup IdsOf(DirectRelations(node, workspaceNodes))
    \cup IdsOf(Backlinks(node, workspaceNodes))
    \cup IdsOf(ParentNode(node, workspaceNodes))
    \cup IdsOf(ChildNodes(node, workspaceNodes))

Suggestion(node, candidate) ==
  LET baseTagSet == toStringSet(node.tags)
      baseKeywordSet == tokenizeNode(node)
      candidateTagSet == toStringSet(candidate.tags)
      candidateKeywordSet == tokenizeNode(candidate)
  IN  [node |-> candidate,
       score |-> Score(jaccardSimilarity(baseTagSet, candidateTagSet),
                       jaccardSimilarity(baseKeywordSet, candidateKeywordSet)),
       sharedTags |-> intersectionFromSets(baseTagSet, candidateTagSet),
       matchedKeywords |-> intersectionFromSets(baseKeywordSet, candidateKeywordSet)]

\* Retention decided by the score alone.
HasOverlap_ScoreOnly(suggestion) == suggestion.score >= 0

\* line 131: the explicit overlap filter
HasOverlap(suggestion) ==
  Cardinality(suggestion.sharedTags) > 0 \/ Cardinality(suggestion.matchedKeywords) > 0

rankPotentialRelatedNodes(node, workspaceNodes, excludedNodeIds) ==
  LET NotExcluded(candidate) == candidate.id \notin excludedNodeIds
      SuggestionFor(candidate) == Suggestion(node, candidate)
  IN  SortBy(Filter(Map(Filter(workspaceNodes, NotExcluded), SuggestionFor), HasOverlap),
             BySuggestion)

\* line 87: the threshold filter
AboveThreshold(suggestion, minSuggestionScore) == suggestion.score >= minSuggestionScore

SuggestedRelatedNodes(node, workspaceNodes, config) ==
  LET Passes(suggestion) == AboveThreshold(suggestion, config.minSuggestionScore)
  IN  SliceTo(Filter(rankPotentialRelatedNodes(node, workspaceNodes,
                                               AlreadyConnectedIds(node, workspaceNodes)),
                     Passes),
              config.suggestionLimit)

\* listDescendants, lines 141-152: the children adjacency and the first queue
ChildrenByParentId(workspaceNodes, parentId) ==
  LET IsChild(candidate) == candidate.parentId # Null /\ candidate.parentId = parentId
  IN  Filter(workspaceNodes, IsChild)

\* Every todo of the subtree, whatever its status.
PendingTodosInside_AnyStatus(descs) ==
  LET IsTodo(candidate) == candidate.type = "todo"
  IN  Filter(descs, IsTodo)

\* lines 74-76: the filter over listDescendants
PendingTodosInside(descs) ==
  LET IsPendingTodo(candidate) == candidate.type = "todo" /\ candidate.status = "pending"
  IN  Filter(descs, IsPendingTodo)

(***************************************************************************)
(* buildNodeContext as steps: the call up to the first queue of            *)
(* listDescendants, one step per iteration of its while loop, the return.  *)
(* The values of lines 49-72 and 78-88 depend only on the arguments and    *)
(* are computed where the view is assembled.                               *)
(***************************************************************************)
ViewOf(node, workspaceNodes, config, descs) ==
  [node |-> node,
   directRelations |-> DirectRelations(node, workspaceNodes),
   backlinks |-> Backlinks(node, workspaceNodes),
   sharedTagNodes |-> SharedTagNodes(node, workspaceNodes),
   recentlyConnectedNodes |->
     RecentlyConnectedNodes(node, workspaceNodes, config.recentlyConnectedLimit),
   parentNode |-> ParentNode(node, workspaceNodes),
   childNodes |-> ChildNodes(node, workspaceNodes),
   pendingTodosInside |-> PendingTodosInside(descs),
   suggestedRelatedNodes |-> SuggestedRelatedNodes(node, workspaceNodes, config)]

View(node, nodes, opts, descs) ==
  ViewOf(node, WorkspaceNodes(node, nodes), Config(opts), descs)

\* A sort that acts on the caller's list itself.
NodesAfterContext_SortedInPlace(nodes) == SortBy(nodes, ByUpdatedAtDesc)

\* The caller's list after the call: sort (lines 68, 132), shift and push (153-159)
\* act on arrays the call made itself (filter, spread, the values of a new Map).
NodesAfterContext(nodes) == nodes

\* lines 44-47: no such node, return null
CallNotFound(id) ==
  /\ pc = "idle"
  /\ FindNode(id, allNodes) = <<>>
  /\ nodeId' = id
  /\ pc' = "done"
  /\ view' = <<>>
  /\ UNCHANGED <<allNodes, options, focal, queue, descendants>>
  /\ UNCHANGED layoutVars
  /\ UNCHANGED storeVars

\* lines 44-74 and 141-152
CallFound(id) ==
  /\ pc = "idle"
  /\ FindNode(id, allNodes) # <<>>
  /\ nodeId' = id
  /\ focal' = FindNode(id, allNodes)
  /\ queue' = ChildrenByParentId(WorkspaceNodes(FindNode(id, allNodes)[1], allNodes), id)
  /\ descendants' = <<>>
  /\ pc' = "bfs"
  /\ UNCHANGED <<allNodes, options, view>>
  /\ UNCHANGED layoutVars
  /\ UNCHANGED storeVars

\* lines 153-160: one iteration of the while loop
BfsStep ==
  /\ pc = "bfs"
  /\ queue # <<>>
  /\ Len(descendants) < MaxVisit
  /\ LET next == Head(queue)
     IN  /\ descendants' = Append(descendants, next)
         /\ queue' = Tail(queue)
                       \o ChildrenByParentId(WorkspaceNodes(focal[1], allNodes), next.id)
  /\ UNCHANGED <<allNodes, pc, nodeId, options, focal, view>>
  /\ UNCHANGED layoutVars
  /\ UNCHANGED storeVars

\* lines 162, 74-100: the loop has ended, assemble and return the view
Return ==
  /\ pc = "bfs"
  /\ queue = <<>>
  /\ view' = <<View(focal[1], allNodes, options, descendants)>>
  /\ pc' = "done"
  /\ allNodes' = NodesAfterContext(allNodes)
  /\ UNCHANGED <<nodeId, options, focal, queue, descendants>>
  /\ UNCHANGED layoutVars
  /\ UNCHANGED storeVars

NextCtx ==
  \/ \E id \in NodeIds \cup {MissingId} : CallNotFound(id)
  \/ \E id \in NodeIds \cup {MissingId} : CallFound(id)
  \/ BfsStep
  \/ Return

(***************************************************************************)
(* graph-utils: buildGraphEdges.  Ids are ordered as Ids lists them (the   *)
(* order [a, b].sort() gives for these ids).                               *)
(***************************************************************************)
Rank(id) == CHOOSE i \in DOMAIN Ids : Ids[i] = id

SortPair(x, y) == IF Rank(x) <= Rank(y) THEN <<x, y>> ELSE <<y, x>>

RECURSIVE Concat(_)
Concat(ss) == IF ss = <<>> THEN <<>> ELSE Head(ss) \o Concat(Tail(ss))

\* One reference per ordered pair.
AppendNewPair_Directed(init, last) ==
  IF \E k \in DOMAIN init : init[k] = last THEN init ELSE Append(init, last)

\* The (node, target) references whose target is in the list, first per pair.
AppendNewPair(init, last) ==
  IF \E k \in DOMAIN init : SortPair(init[k][1], init[k][2]) = SortPair(last[1], last[2])
  THEN init ELSE Append(init, last)

RECURSIVE FirstPerPair(_)
FirstPerPair(refs) ==
  IF refs = <<>> THEN <<>>
  ELSE AppendNewPair(FirstPerPair(SubSeq(refs, 1, Len(refs) - 1)), refs[Len(refs)])

RefsOf(nodes, Targets(_)) ==
  LET InList(t) == \E i \in DOMAIN nodes : nodes[i].id = t
      RefsFrom(node) ==
        LET Ref(t) == <<node.id, t>>
        IN  Map(Filter(Targets(node), InList), Ref)
  IN  Concat(Map(nodes, RefsFrom))

Edge(source, target, edgeType) ==
  [source |-> source, target |-> target, edgeType |-> edgeType]

crossWorkspaceRefsOf(node) == node.crossWorkspaceRefs

buildGraphEdges(nodes) ==
  LET HasParent(node) ==
        node.parentId # Null /\ \E i \in DOMAIN nodes : nodes[i].id = node.parentId
      HierarchyEdge(node) == Edge(node.parentId, node.id, "hierarchy")
      RelationEdge(ref) == Edge(ref[1], ref[2], "relation")
      CrossEdge(ref) == Edge(ref[1], ref[2], "cross-workspace")
  IN  Map(Filter(nodes, HasParent), HierarchyEdge)
        \o Map(FirstPerPair(RefsOf(nodes, getNodeRelationIds)), RelationEdge)
        \o Map(FirstPerPair(RefsOf(nodes, crossWorkspaceRefsOf)), CrossEdge)

(***************************************************************************)
(* Graph2DLayout.  The maps of the engine are functions on the ids they    *)
(* hold; the Sets of "id1::id2" keys are sequences of sorted pairs in      *)
(* insertion order.                                                        *)
(***************************************************************************)
DEFAULT_CONFIG ==
  [hierarchyVerticalGap |-> 120, childHorizontalSpacing |-> 100,
   relationRadialDistance |-> 200, minNodeDistance |-> 80, nodeRadius |-> 24]

Point(x, y) == [x |-> x, y |-> y, r |-> 0, k |-> 0, n |-> 1]

\* (cx + cos(angle) * r, cy + sin(angle) * r) with angle = 2 * pi * k / n
Polar(cx, cy, r, k, n) == [x |-> cx, y |-> cy, r |-> r, k |-> k, n |-> n]

EmptyMap == <<>>

MapSet(m, key, value) == (key :> value) @@ m

Write(id, pos) == [id |-> id, pos |-> pos]

\* The map after the writes of log, in order.
RECURSIVE Apply(_, _)
Apply(m, log) ==
  IF log = <<>> THEN m ELSE Apply(MapSet(m, Head(log).id, Head(log).pos), Tail(log))

Keys(log) == {log[i].id : i \in DOMAIN log}

\* A clear() that leaves the collection as the call before left it.
clear_Kept(m) == m

\* Map.prototype.clear / Set.prototype.clear, lines 161-165 and 199-203
clear(m) == <<>>

\* The entries a map starts the call with, as writes.
Entries(m) ==
  LET Held(id) == id \in DOMAIN m
      Entry(id) == Write(id, m[id])
  IN  Map(Filter(Ids \o <<MissingId>>, Held), Entry)

\* filter(id => !alreadyPositioned.has(id))
Unplaced(ids, log) ==
  LET NotYet(id) == id \notin Keys(log)
  IN  Filter(ids, NotYet)

ParentWrites(edges) ==
  LET IsHierarchy(e) == e.edgeType = "hierarchy"
      ParentWrite(e) == Write(e.target, e.source)
  IN  Map(Filter(edges, IsHierarchy), ParentWrite)

\* hierarchyParents.set(edge.target, edge.source), edge after edge
ParentsOf(old, edges) == Apply(old, ParentWrites(edges))

TargetOf(e) == e.target

\* children = hierarchyChildren.get(edge.source) || []; children.push(edge.target)
ChildrenOf(old, edges) ==
  [p \in DOMAIN old
        \cup {edges[k].source : k \in {j \in DOMAIN edges : edges[j].edgeType = "hierarchy"}} |->
     LET From(e) == e.edgeType = "hierarchy" /\ e.source = p
     IN  (IF p \in DOMAIN old THEN old[p] ELSE <<>>) \o Map(Filter(edges, From), TargetOf)]

RECURSIVE Distinct(_)
Distinct(s) ==
  IF s = <<>> THEN <<>>
  ELSE AppendNew(Distinct(SubSeq(s, 1, Len(s) - 1)), s[Len(s)])

PairsOf(old, edges, edgeType) ==
  LET IsType(e) == e.edgeType = edgeType
      PairOf(e) == SortPair(e.source, e.target)
  IN  Distinct(old \o Map(Filter(edges, IsType), PairOf))

\* Only the keys that start with the id.
OtherEnds_FirstOnly(pairs, id) ==
  LET Starts(pair) == pair[1] = id
      Second(pair) == pair[2]
  IN  Map(Filter(pairs, Starts), Second)

\* getRelationNodeIds / getCrossWorkspaceNodeIds
OtherEnds(pairs, id) ==
  LET Touches(pair) == pair[1] = id \/ pair[2] = id
      Other(pair) == IF pair[1] = id THEN pair[2] ELSE pair[1]
  IN  Map(Filter(pairs, Touches), Other)

\* Map.get: the value in a sequence of length 1, or the empty sequence
MapGet(m, key) == IF key \in DOMAIN m THEN <<m[key]>> ELSE <<>>

\* hierarchyChildren.get(id) || []
ChildIds(children, id) == IF id \in DOMAIN children THEN children[id] ELSE <<>>

calculateNodePosition(node, level) == Point(0, 0)

\* An expansion that still places children below the last level.
ExpandsBelow_Inclusive(level, depthLimit) == level <= depthLimit

\* line 323: the guard of the expansion below a node
ExpandsBelow(level, depthLimit) == level < depthLimit

\* The ids of s that are ids of the node list: map(find).filter(defined).
Resolved(s, nodes) ==
  LET Known(id) == id \in IdsOf(nodes)
  IN  Filter(s, Known)

\* layoutHierarchyTree: the writes to nodePositions it makes, in order.
RECURSIVE layoutHierarchyTree(_, _, _, _, _, _)
RECURSIVE layoutChildren(_, _, _, _, _, _, _, _)
layoutHierarchyTree(id, nodes, children, parents, depthLimit, level) ==
  IF level > depthLimit THEN <<>>
  ELSE
    LET position == IF level = 0 THEN Point(0, 0) ELSE calculateNodePosition(id, level)
        childIds == ChildIds(children, id)
        childNodes == Resolved(childIds, nodes)
        parentId == MapGet(parents, id)
    IN  <<Write(id, position)>>
          \o (IF childIds # <<>> /\ ExpandsBelow(level, depthLimit)
              THEN layoutChildren(childNodes, 1, position, nodes, children, parents,
                                  depthLimit, level)
              ELSE <<>>)
          \o (IF level = 0 /\ parentId # <<>> /\ level < depthLimit
                 /\ parentId[1] \in IdsOf(nodes)
              THEN <<Write(parentId[1], Point(0, 0 - layoutConfig.hierarchyVerticalGap))>>
              ELSE <<>>)

\* lines 331-339: the forEach over the children, from the index-th child on
layoutChildren(childNodes, index, position, nodes, children, parents, depthLimit, level) ==
  IF index > Len(childNodes) THEN <<>>
  ELSE
    LET spacing == layoutConfig.childHorizontalSpacing
        childrenWidth == Len(childNodes) * spacing
        offsetX == (2 * (index - 1) * spacing + spacing - childrenWidth) \div 2
        childPos == Point(position.x + offsetX,
                          position.y + layoutConfig.hierarchyVerticalGap)
    IN  <<Write(childNodes[index], childPos)>>
          \o layoutHierarchyTree(childNodes[index], nodes, children, parents,
                                 depthLimit, level + 1)
          \o layoutChildren(childNodes, index + 1, position, nodes, children, parents,
                            depthLimit, level)

radialWrites(selectedPos, newRelationNodes) ==
  [i \in DOMAIN newRelationNodes |->
     Write(newRelationNodes[i],
           Polar(selectedPos.x, selectedPos.y, layoutConfig.relationRadialDistance,
                 i - 1, Len(newRelationNodes)))]

\* layoutRadialRelations: its writes, given the writes of the hierarchy step
layoutRadialRelations(selectedNodeId, nodes, hierLog, relations) ==
  IF selectedNodeId \notin Keys(hierLog) THEN <<>>
  ELSE radialWrites(Apply(EmptyMap, hierLog)[selectedNodeId],
                    Resolved(Unplaced(OtherEnds(relations, selectedNodeId), hierLog), nodes))

\* A radius that grows with the node count without the upper clamp.
CircleRadius_NoCap(count) == Max2(150, count * 30)

\* line 400
CircleRadius(count) == Min2(300, Max2(150, count * 30))

\* layoutAllNodesCircle: its writes
layoutAllNodesCircle(nodes) ==
  [i \in DOMAIN nodes |->
     Write(nodes[i].id,
           Polar(0, 0, CircleRadius(Len(nodes)), i - 1, Max2(1, Len(nodes))))]

\* line 418: the position of a node in the returned list
PositionOrOrigin(positions, id) ==
  IF id \in DOMAIN positions THEN <<positions[id]>> ELSE <<Point(0, 0)>>

constructLayoutNodes(nodes, positions) ==
  LET LayoutNodes(node) ==
        LET LayoutNode(pos) ==
              [id |-> node.id, pos |-> pos, radius |-> layoutConfig.nodeRadius]
        IN  Map(PositionOrOrigin(positions, node.id), LayoutNode)
  IN  Concat(Map(nodes, LayoutNodes))

\* Only relation edges drawn curved.
IsCurved_RelationOnly(edgeType) == edgeType = "relation"

\* line 442
IsCurved(edgeType) == edgeType = "relation" \/ edgeType = "cross-workspace"

constructLayoutEdges(edges, positions) ==
  LET Placed(e) == e.source \in DOMAIN positions /\ e.target \in DOMAIN positions
      LayoutEdge(e) ==
        [source |-> e.source, target |-> e.target, edgeType |-> e.edgeType,
         sourcePos |-> positions[e.source], targetPos |-> positions[e.target],
         isCurved |-> IsCurved(e.edgeType)]
  IN  Map(Filter(edges, Placed), LayoutEdge)

\* lines 213-219: zone 1 (centre) and zone 2 (above)
zoneCentreAbove(selectedNodeId, parentId) ==
  <<Write(selectedNodeId, Point(0, 0))>>
    \o (IF parentId # <<>> THEN <<Write(parentId[1], Point(0, 0 - 180))>> ELSE <<>>)

\* lines 222-234: zone 3 (below)
zoneBelow(childNodes) ==
  [i \in DOMAIN childNodes |->
     Write(childNodes[i],
           Point((2 * (i - 1) * 160 - (Len(childNodes) - 1) * 160) \div 2, 180))]

\* lines 237-257: zone 4 (around); the angle pi/4 + i * (3*pi/2) / (count - 1)
\* as a fraction of 2*pi
zoneAround(newRelationNodes) ==
  [i \in DOMAIN newRelationNodes |->
     Write(newRelationNodes[i],
           IF Len(newRelationNodes) > 1
           THEN Polar(0, 0, 280, (Len(newRelationNodes) - 1) + 6 * (i - 1),
                      8 * (Len(newRelationNodes) - 1))
           ELSE Polar(0, 0, 280, 1, 8))]

\* lines 260-276: zone 5 (peripheral)
zonePeripheral(peripheral) ==
  [i \in DOMAIN peripheral |->
     Write(peripheral[i],
           Point((IF (i - 1) % 2 = 0 THEN 1 ELSE 0 - 1) * 400,
                 ((i - 1) \div 2) * 80 - 20 * Len(peripheral)))]

WithAround(log, selectedNodeId, nodes, relations) ==
  log \o zoneAround(Resolved(Unplaced(OtherEnds(relations, selectedNodeId), log), nodes))

WithPeripheral(log, selectedNodeId, nodes, cross) ==
  log \o zonePeripheral(Resolved(Unplaced(OtherEnds(cross, selectedNodeId), log), nodes))

\* layoutContextual, zones 1-5: its writes, after the entries in seed
contextualZones(seed, selectedNodeId, nodes, children, parents, relations, cross) ==
  WithPeripheral(
    WithAround(seed \o zoneCentreAbove(selectedNodeId, MapGet(parents, selectedNodeId))
                 \o zoneBelow(Resolved(ChildIds(children, selectedNodeId), nodes)),
               selectedNodeId, nodes, relations),
    selectedNodeId, nodes, cross)

Found(id, nodes) == id \in IdsOf(nodes)

\* The caller's edge list after the call: buildGraphStructure reads it with
\* forEach, pushes onto arrays of its own map and sorts a new [source, target].
EdgesAfterLayout(edges) == edges

\* lines 161-167: the collections cleared, then buildGraphStructure(edges)
Built(edges) ==
  [parents |-> ParentsOf(clear(hierarchyParents), edges),
   children |-> ChildrenOf(clear(hierarchyChildren), edges),
   relations |-> PairsOf(clear(relationEdges), edges, "relation"),
   cross |-> PairsOf(clear(crossWorkspaceEdges), edges, "cross-workspace")]

\* lines 416-446 and the return value
ResultOf(nodes, edges, positions) ==
  [nodes |-> constructLayoutNodes(nodes, positions),
   edges |-> constructLayoutEdges(edges, positions)]

\* The state of the engine after the writes of log
FinishAt(nodes, edges, graph, positions, log, hierLog) ==
  /\ hierarchyParents' = graph.parents
  /\ hierarchyChildren' = graph.children
  /\ relationEdges' = graph.relations
  /\ crossWorkspaceEdges' = graph.cross
  /\ posLog' = log
  /\ hierKeys' = Keys(hierLog)
  /\ nodePositions' = positions
  /\ layoutResult' = <<ResultOf(nodes, edges, positions)>>

Finish(nodes, edges, graph, seed, log, hierLog) ==
  FinishAt(nodes, edges, graph, Apply(EmptyMap, seed \o log), log, hierLog)

StandardWrites(seed, hierLog, selectedNodeId, nodes, relations) ==
  hierLog \o layoutRadialRelations(selectedNodeId, nodes, seed \o hierLog, relations)

LayoutFound(nodes, edges, selectedNodeId, graph, seed, hierLog) ==
  Finish(nodes, edges, graph, seed,
         StandardWrites(seed, hierLog, selectedNodeId, nodes, graph.relations), hierLog)

LayoutFallback(nodes, edges, graph, seed, log) == Finish(nodes, edges, graph, seed, log, <<>>)

LayoutWith(nodes, edges, selectedNodeId, depthLimit, graph, seed) ==
  IF Found(selectedNodeId, nodes)
  THEN LayoutFound(nodes, edges, selectedNodeId, graph, seed,
                   layoutHierarchyTree(selectedNodeId, nodes, graph.children,
                                       graph.parents, depthLimit, 0))
  ELSE LayoutFallback(nodes, edges, graph, seed, layoutAllNodesCircle(nodes))

LayoutOf(nodes, edges, selectedNodeId, depthLimit) ==
  LayoutWith(nodes, edges, selectedNodeId, depthLimit, Built(edges),
             Entries(clear(nodePositions)))

ContextualFound(nodes, edges, graph, seed, seeded) ==
  LayoutFallback(nodes, edges, graph, seed, SubSeq(seeded, Len(seed) + 1, Len(seeded)))

LayoutContextualWith(nodes, edges, selectedNodeId, graph, seed) ==
  IF Found(selectedNodeId, nodes)
  THEN ContextualFound(nodes, edges, graph, seed,
                       contextualZones(seed, selectedNodeId, nodes, graph.children,
                                       graph.parents, graph.relations, graph.cross))
  ELSE LayoutFallback(nodes, edges, graph, seed, layoutAllNodesCircle(nodes))

LayoutContextualOf(nodes, edges, selectedNodeId) ==
  LayoutContextualWith(nodes, edges, selectedNodeId, Built(edges),
                       Entries(clear(nodePositions)))

\* layout(nodes, edges, selectedNodeId, depthLimit) on the caller's lists
Layout(selectedNodeId, depthLimit) ==
  /\ callsLeft > 0
  /\ LayoutOf(allNodes, allEdges, selectedNodeId, depthLimit)
  /\ call' = <<[mode |-> "standard", selectedNodeId |-> selectedNodeId,
                depthLimit |-> depthLimit]>>
  /\ lpc' = "done"
  /\ callsLeft' = callsLeft - 1
  /\ allEdges' = EdgesAfterLayout(allEdges)
  /\ UNCHANGED <<allNodes, layoutConfig>>
  /\ UNCHANGED ctxVars
  /\ UNCHANGED storeVars

\* layoutContextual(nodes, edges, selectedNodeId) on the caller's lists
LayoutContextual(selectedNodeId) ==
  /\ callsLeft > 0
  /\ LayoutContextualOf(allNodes, allEdges, selectedNodeId)
  /\ call' = <<[mode |-> "contextual", selectedNodeId |-> selectedNodeId,
                depthLimit |-> 0]>>
  /\ lpc' = "done"
  /\ callsLeft' = callsLeft - 1
  /\ allEdges' = EdgesAfterLayout(allEdges)
  /\ UNCHANGED <<allNodes, layoutConfig>>
  /\ UNCHANGED ctxVars
  /\ UNCHANGED storeVars

LayoutIds == {Ids[i] : i \in 1..NumLayoutNodes}

NextLayout ==
  \/ \E id \in LayoutIds \cup {MissingId}, d \in 0..MaxDepthLimit : Layout(id, d)
  \/ \E id \in LayoutIds \cup {MissingId} : LayoutContextual(id)

(***************************************************************************)
(* Inputs.  A node list has 0..count nodes with the ids of Ids, in         *)
(* order; node i has the fields Fields(i, v) for a choice v drawn from Var, *)
(* else those of BaseNode.                                                 *)
(* Lists are as the repository returns them (normalizeNodeEntity):         *)
(* relations and relationIds name the same ids.                            *)
(***************************************************************************)
TxtEmpty == <<>>

TxtAbc == <<"A", "b", "c">>

TxtAbcBcd == <<"a", "b", "c", "-", "b", "c", "d">>

TxtShort == <<"a", "b", " ", "c", "d">>

TagAi == <<"a", "b">>

TagAiPadded == <<" ", "A", "B", " ">>

TagMl == <<"c", "d">>

TagBlank == <<" ">>

Epoch(ms) == [valid |-> TRUE, ms |-> ms]

BaseNode ==
  [workspaceId |-> "w1", type |-> "note", status |-> "none",
   title |-> TxtEmpty, content |-> TxtEmpty, tags |-> <<>>,
   relationIds |-> <<>>, relations |-> <<>>, crossWorkspaceRefs |-> <<>>,
   parentId |-> Null, updatedAt |-> Epoch(0)]

\* normalizeNodeEntity: relationIds and relations both become the distinct ids
\* of the two lists.
normalizeNodeEntity(node) ==
  [node EXCEPT !.relationIds = getNodeRelationIds(node),
               !.relations = getNodeRelationIds(node)]

MkNode(id, fields) == normalizeNodeEntity([id |-> id] @@ fields)

NodeLists(Var, Fields(_, _), count) ==
  UNION {{[i \in 1..n |-> MkNode(Ids[i], Fields(i, g[i]) @@ BaseNode)] : g \in [1..n -> Var]}
         : n \in 0..count}

LayoutIdle ==
  /\ nodePositions = <<>>
  /\ hierarchyParents = <<>>
  /\ hierarchyChildren = <<>>
  /\ relationEdges = <<>>
  /\ crossWorkspaceEdges = <<>>
  /\ lpc = "idle"
  /\ call = <<>>
  /\ hierKeys = {}
  /\ posLog = <<>>
  /\ layoutResult = <<>>

\* The web app: edges built from the node list (App.tsx:93), one layout per
\* engine (GraphScene2D), here with the default configuration.
AppEngine ==
  /\ allEdges = buildGraphEdges(allNodes)
  /\ layoutConfig = DEFAULT_CONFIG
  /\ callsLeft = 1

CtxIdle ==
  /\ pc = "idle"
  /\ nodeId = Null
  /\ focal = <<>>
  /\ queue = <<>>
  /\ descendants = <<>>
  /\ view = <<>>

\* createEmptyGraphState (node-engine.ts:37-42), no call made yet.
GraphIdle ==
  /\ nodesById = <<>>
  /\ connectionsById = <<>>
  /\ created = 0
  /\ connected = <<>>
  /\ graphCallsLeft = 0

\* An empty IndexedDB and server store, no lastSync in localStorage, no run of
\* syncWorkspace under way.
SyncIdle ==
  /\ localDb = <<>>
  /\ serverDb = <<>>
  /\ lastSync = <<>>
  /\ spc = "idle"
  /\ changes = <<>>
  /\ remoteNodes = <<>>
  /\ merged = <<>>
  /\ serverTime = 0
  /\ clock = 0

StoresIdle == GraphIdle /\ SyncIdle

\* Hierarchies of every shape (forests, dangling parents, cycles), two workspaces.
FieldsBfs(i, v) == v

VarBfs == [workspaceId : {"w1", "w2"}, parentId : NodeIds \cup {Null}]

InitBfs ==
  /\ allNodes \in NodeLists(VarBfs, FieldsBfs, NumNodes)
  /\ options = <<>>
  /\ CtxIdle
  /\ LayoutIdle
  /\ StoresIdle
  /\ AppEngine

SpecBfs == InitBfs /\ [][NextCtx]_vars

\* Links of every kind inside and across two workspaces: a node may have the node
\* before it as parent (the first node: the second, which closes a cycle), and may
\* name the node before it, or the nodes around it and a deleted node.  Every node
\* is a pending todo with the same tag and title, so that every descendant is
\* pending work and every node not excluded is a suggestion candidate.
\* (The first node is in w1: the two workspace names are interchangeable.)
Before(i) == IF i = 1 THEN Ids[2] ELSE Ids[i - 1]

After(i) == Ids[i + 1]

FieldsCtx(i, v) ==
  [tags |-> <<TagAi>>, title |-> TxtAbc, type |-> "todo", status |-> "pending",
   workspaceId |-> IF i = 1 THEN "w1" ELSE v.workspaceId,
   parentId |-> IF v.hasParent THEN Before(i) ELSE Null,
   relations |-> CASE v.links = "none" -> <<>>
                   [] v.links = "before" -> <<Before(i)>>
                   [] v.links = "around" -> <<After(i), Before(i), MissingId>>]

VarCtx ==
  [workspaceId : {"w1", "w2"}, hasParent : BOOLEAN, links : {"none", "before", "around"}]

InitCtx ==
  /\ allNodes \in NodeLists(VarCtx, FieldsCtx, NumNodes)
  /\ options = <<>>
  /\ CtxIdle
  /\ LayoutIdle
  /\ StoresIdle
  /\ AppEngine

SpecCtx == InitCtx /\ [][NextCtx]_vars

\* Tags and titles that overlap fully, partly or not at all, under several options.
FieldsSug(i, v) ==
  [parentId |-> IF i = 2 THEN Ids[1] ELSE Null, updatedAt |-> Epoch(i)] @@ v

VarSug ==
  [tags : {<<TagBlank>>, <<TagAi>>, <<TagAiPadded, TagMl>>},
   title : {TxtAbc, TxtAbcBcd, TxtShort}]

OptionChoices ==
  {<<>>,
   [minSuggestionScore |-> 0],
   [minSuggestionScore |-> 0 - 1],
   [minSuggestionScore |-> 6500],
   [suggestionLimit |-> 1, recentlyConnectedLimit |-> 1]}

InitSug ==
  /\ allNodes \in NodeLists(VarSug, FieldsSug, NumNodes)
  /\ options \in OptionChoices
  /\ CtxIdle
  /\ LayoutIdle
  /\ StoresIdle
  /\ AppEngine

SpecSug == InitSug /\ [][NextCtx]_vars

\* Hierarchies of every shape over nodes with some relation and cross-workspace
\* links; nothing is laid out yet.
FieldsLayout(i, v) ==
  [relations |-> IF i = 2 THEN <<Ids[1]>>
                 ELSE IF i = 3 THEN <<Ids[1], Ids[2]>> ELSE <<>>,
   crossWorkspaceRefs |-> IF i = NumLayoutNodes THEN <<Ids[1]>> ELSE <<>>] @@ v

VarLayout == [parentId : LayoutIds \cup {Null}]

InitLayout ==
  /\ allNodes \in NodeLists(VarLayout, FieldsLayout, NumLayoutNodes)
  /\ options = <<>>
  /\ CtxIdle
  /\ LayoutIdle
  /\ StoresIdle
  /\ AppEngine

SpecLayout == InitLayout /\ [][NextLayout]_vars

\* Long lists, flat from the fourth node on, for the circular fallback.
FieldsCircle(i, v) == IF i > 3 THEN [parentId |-> Null] ELSE v

VarCircle == [parentId : {Null, Ids[1]}]

InitCircle ==
  /\ allNodes \in NodeLists(VarCircle, FieldsCircle, MaxCircleNodes)
  /\ options = <<>>
  /\ CtxIdle
  /\ LayoutIdle
  /\ StoresIdle
  /\ AppEngine

SpecCircle == InitCircle /\ [][NextLayout]_vars

\* The layout engine on its own: any edge list, also one that names nodes absent
\* from the node list or whose hierarchy edges form cycles, under the default
\* configuration or the one GraphScene2D constructs the engine with.
SceneConfig ==
  [hierarchyVerticalGap |-> 140, childHorizontalSpacing |-> 120,
   relationRadialDistance |-> 220, minNodeDistance |-> 80, nodeRadius |-> 28]

MasterEdges ==
  <<Edge("a", "b", "hierarchy"), Edge("b", "a", "hierarchy"), Edge("b", "c", "hierarchy"),
    Edge("a", "a", "hierarchy"), Edge("c", "a", "hierarchy"),
    Edge("a", "c", "relation"), Edge("b", "a", "relation"), Edge("c", "b", "relation"),
    Edge("a", "c", "cross-workspace")>>

\* The sub-lists of MasterEdges of at most count edges, in its order.
EdgeLists(count) ==
  {LET Chosen(e) == \E k \in picked : MasterEdges[k] = e
   IN  Filter(MasterEdges, Chosen)
   : picked \in {ks \in SUBSET DOMAIN MasterEdges : Cardinality(ks) <= count}}

BareNodes(count) == {[i \in 1..n |-> MkNode(Ids[i], BaseNode)] : n \in 0..count}

EngineIds == {Ids[i] : i \in 1..NumEngineNodes}

InitEngine ==
  /\ allNodes \in BareNodes(NumEngineNodes)
  /\ allEdges \in EdgeLists(MaxEdges)
  /\ layoutConfig \in {DEFAULT_CONFIG, SceneConfig}
  /\ callsLeft = 1
  /\ options = <<>>
  /\ CtxIdle
  /\ LayoutIdle
  /\ StoresIdle

NextEngine ==
  \/ \E id \in EngineIds \cup {MissingId}, d \in 0..MaxDepthLimit : Layout(id, d)
  \/ \E id \in EngineIds \cup {MissingId} : LayoutContextual(id)

SpecEngine == InitEngine /\ [][NextEngine]_vars

\* One engine used for several calls, the caller's lists changing in between.
ListsChange ==
  /\ lpc = "done"
  /\ callsLeft > 0
  /\ \/ allEdges # <<>> /\ allEdges' = Tail(allEdges) /\ allNodes' = allNodes
     \/ allNodes # <<>> /\ allNodes' = SubSeq(allNodes, 1, Len(allNodes) - 1)
                        /\ allEdges' = allEdges
  /\ UNCHANGED <<nodePositions, hierarchyParents, hierarchyChildren, relationEdges,
                 crossWorkspaceEdges, lpc, call, hierKeys, posLog, layoutResult,
                 layoutConfig, callsLeft>>
  /\ UNCHANGED ctxVars
  /\ UNCHANGED storeVars

InitRepeat ==
  /\ allNodes \in {nodes \in BareNodes(NumEngineNodes) : Len(nodes) = NumEngineNodes}
  /\ allEdges \in EdgeLists(MaxRepeatEdges)
  /\ layoutConfig = DEFAULT_CONFIG
  /\ callsLeft = MaxCalls
  /\ options = <<>>
  /\ CtxIdle
  /\ LayoutIdle
  /\ StoresIdle

NextRepeat ==
  \/ \E id \in EngineIds \cup {MissingId} : Layout(id, MaxDepthLimit)
  \/ \E id \in EngineIds \cup {MissingId} : LayoutContextual(id)
  \/ ListsChange

SpecRepeat == InitRepeat /\ [][NextRepeat]_vars

(***************************************************************************)
(* C1: resolveContext terminates on every node set: the pending-descendant *)
(* traversal visits each node at most once, also when the parentId links   *)
(* form a cycle through the focal node.                                    *)
(***************************************************************************)
C1_VisitsEachNodeOnce ==
  \A i, j \in DOMAIN descendants : i # j => descendants[i].id # descendants[j].id

Returned == pc = "done" /\ view # <<>>

ViewFieldNodes(v) ==
  Range(v.directRelations) \cup Range(v.backlinks) \cup Range(v.sharedTagNodes)
    \cup Range(v.recentlyConnectedNodes) \cup Range(v.parentNode)
    \cup Range(v.childNodes) \cup Range(v.pendingTodosInside)
    \cup {v.suggestedRelatedNodes[i].node : i \in DOMAIN v.suggestedRelatedNodes}

(***************************************************************************)
(* C2: workspace isolation.  No node of a workspace other than the focal   *)
(* node's appears in any field of the returned view.                       *)
(***************************************************************************)
C2_WorkspaceIsolation ==
  Returned =>
    \A n \in ViewFieldNodes(view[1]) : n.workspaceId = view[1].node.workspaceId

\* A view was returned for a focal node that names, and is named by, nodes of
\* another workspace, and whose parent is in another workspace.
C2_Witness ==
  /\ Returned
  /\ view[1].directRelations # <<>>
  /\ \E i, j \in DOMAIN allNodes :
       /\ allNodes[i].workspaceId # view[1].node.workspaceId
       /\ allNodes[i].id \in Range(view[1].node.relations)
       /\ allNodes[i].id = view[1].node.parentId
       /\ allNodes[j].workspaceId # view[1].node.workspaceId
       /\ view[1].node.id \in Range(allNodes[j].relations)
       /\ allNodes[j].parentId = view[1].node.id

(***************************************************************************)
(* C3: suggestion exclusion.  suggestedRelatedNodes never contains the     *)
(* focal node, a direct relation, a backlink, the parent or a child.       *)
(***************************************************************************)
C3_SuggestionExclusion ==
  Returned =>
    \A i \in DOMAIN view[1].suggestedRelatedNodes :
      LET id == view[1].suggestedRelatedNodes[i].node.id
      IN  /\ id # view[1].node.id
          /\ id \notin IdsOf(view[1].directRelations)
          /\ id \notin IdsOf(view[1].backlinks)
          /\ id \notin IdsOf(view[1].parentNode)
          /\ id \notin IdsOf(view[1].childNodes)

\* Something is suggested while the focal node has a child that is neither a
\* direct relation nor a backlink.
C3_Witness ==
  /\ Returned
  /\ view[1].suggestedRelatedNodes # <<>>
  /\ \E i \in DOMAIN view[1].childNodes :
       /\ view[1].childNodes[i].id \notin IdsOf(view[1].directRelations)
       /\ view[1].childNodes[i].id \notin IdsOf(view[1].backlinks)
       /\ view[1].childNodes[i].id # view[1].node.id

\* Overlap of two nodes, read off the node records.
SharesTag(a, b) ==
  \E i \in DOMAIN a.tags, j \in DOMAIN b.tags :
    /\ trim(a.tags[i]) # <<>>
    /\ LowerStr(trim(a.tags[i])) = LowerStr(trim(b.tags[j]))

SharesKeyword(a, b) == tokenizeNode(a) \cap tokenizeNode(b) # {}

(***************************************************************************)
(* C4: suggestion filter.  Every suggestion shares a tag (trimmed, case    *)
(* ignored) or a keyword token with the focal node and scores at least     *)
(* minSuggestionScore, whatever the threshold is.                          *)
(***************************************************************************)
C4_SuggestionFilter ==
  Returned =>
    \A i \in DOMAIN view[1].suggestedRelatedNodes :
      LET s == view[1].suggestedRelatedNodes[i]
      IN  /\ SharesTag(view[1].node, s.node) \/ SharesKeyword(view[1].node, s.node)
          /\ s.score >= Config(options).minSuggestionScore

\* The threshold is 0 or negative, a candidate without any overlap exists and is
\* left out, and another candidate is suggested.
C4_Witness ==
  /\ Returned
  /\ Config(options).minSuggestionScore <= 0
  /\ view[1].suggestedRelatedNodes # <<>>
  /\ \E i \in DOMAIN allNodes :
       /\ allNodes[i].id # view[1].node.id
       /\ allNodes[i].parentId # view[1].node.id
       /\ allNodes[i].id # view[1].node.parentId
       /\ ~SharesTag(view[1].node, allNodes[i])
       /\ ~SharesKeyword(view[1].node, allNodes[i])

C6_NotFound ==
  (pc # "idle" /\ nodeId \notin IdsOf(allNodes)) => (pc = "done" /\ view = <<>>)

\* null was returned for a non-empty list, and for the empty list, under options
\* that are not the defaults.
C6_Witness ==
  /\ pc = "done"
  /\ view = <<>>
  /\ nodeId \notin IdsOf(allNodes)
  /\ DOMAIN options # {}

(***************************************************************************)
(* The hierarchy as the node records give it, for the layout claims.       *)
(***************************************************************************)
ParentIn(nodes, id) ==
  LET hits == {i \in DOMAIN nodes : nodes[i].id = id /\ nodes[i].parentId \in IdsOf(nodes)}
  IN  IF hits = {} THEN Null ELSE nodes[CHOOSE i \in hits : TRUE].parentId

RECURSIVE WalkUp(_, _, _)
WalkUp(nodes, id, hops) ==
  IF hops = 0 \/ id = Null THEN id ELSE WalkUp(nodes, ParentIn(nodes, id), hops - 1)

AcyclicParents(nodes) ==
  \A i \in DOMAIN nodes : WalkUp(nodes, nodes[i].id, Len(nodes)) = Null

\* The number of child hops from ancestor down to id, 0 if id is not below it.
Hops(nodes, id, ancestor) ==
  LET ks == {k \in 1..Len(nodes) : WalkUp(nodes, id, k) = ancestor}
  IN  IF ks = {} THEN 0 ELSE CHOOSE k \in ks : \A m \in ks : k <= m

StandardDone ==
  /\ lpc = "done"
  /\ call[1].mode = "standard"
  /\ Found(call[1].selectedNodeId, allNodes)

ResultIds == {layoutResult[1].nodes[i].id : i \in DOMAIN layoutResult[1].nodes}

ResultAt(id, pos) ==
  \A i \in DOMAIN layoutResult[1].nodes :
    layoutResult[1].nodes[i].id = id => layoutResult[1].nodes[i].pos = pos

ChildrenInOrder(nodes, id) ==
  LET IsChild(node) == node.parentId = id
  IN  Filter(nodes, IsChild)

\* The focal node is returned at the origin and its parent one gap above it.
FocalAndParentPlaced ==
  (StandardDone /\ call[1].depthLimit >= 1 /\ AcyclicParents(allNodes)) =>
    LET F == call[1].selectedNodeId
        P == ParentIn(allNodes, F)
    IN  /\ ResultAt(F, Point(0, 0))
        /\ P # Null => ResultAt(P, Point(0, 0 - layoutConfig.hierarchyVerticalGap))

(***************************************************************************)
(* C7: standard layout with a focal node F and depthLimit >= 1 returns F   *)
(* at (0,0), F's parent at (0,-gap) and F's n children at y = +gap, the    *)
(* i-th at x = -(n-1)*spacing/2 + i*spacing.                               *)
(***************************************************************************)
C7_StandardPlacement ==
  (StandardDone /\ call[1].depthLimit >= 1 /\ AcyclicParents(allNodes)) =>
    LET F == call[1].selectedNodeId
        kids == ChildrenInOrder(allNodes, F)
        spacing == layoutConfig.childHorizontalSpacing
    IN  /\ FocalAndParentPlaced
        /\ \A i \in DOMAIN kids :
             ResultAt(kids[i].id,
                      Point(((2 * (i - 1) - (Len(kids) - 1)) * spacing) \div 2,
                            layoutConfig.hierarchyVerticalGap))

(***************************************************************************)
(* C8: layout totality under depth.  With an acyclic hierarchy and         *)
(* depthLimit d, a descendant k child hops below the focal node is given a *)
(* position by the hierarchy step if and only if 1 <= k <= d.              *)
(***************************************************************************)
C8_TotalityUnderDepth ==
  (StandardDone /\ AcyclicParents(allNodes)) =>
    \A i \in DOMAIN allNodes :
      LET k == Hops(allNodes, allNodes[i].id, call[1].selectedNodeId)
      IN  k >= 1 => (allNodes[i].id \in hierKeys <=> k <= call[1].depthLimit)

\* A descendant exactly d hops below the focal node is placed and one d + 1 hops
\* below is not, for d >= 1.
C8_Witness ==
  /\ StandardDone
  /\ AcyclicParents(allNodes)
  /\ call[1].depthLimit >= 1
  /\ \E i, j \in DOMAIN allNodes :
       /\ Hops(allNodes, allNodes[i].id, call[1].selectedNodeId) = call[1].depthLimit
       /\ allNodes[i].id \in hierKeys
       /\ Hops(allNodes, allNodes[j].id, call[1].selectedNodeId) = call[1].depthLimit + 1
       /\ allNodes[j].id \notin hierKeys

\* 30 per node, kept between 150 and 300.
ClampedRadius(count) ==
  IF 30 * count < 150 THEN 150 ELSE IF 30 * count > 300 THEN 300 ELSE 30 * count

(***************************************************************************)
(* C9: fallback correctness.  When focalId matches no node, every input    *)
(* node gets exactly one position, the i-th of n at the i-th of n evenly   *)
(* spaced angles on the circle of radius min(300, max(150, 30 n)).         *)
(***************************************************************************)
C9_FallbackCorrectness ==
  (lpc = "done" /\ ~Found(call[1].selectedNodeId, allNodes)) =>
    /\ Len(layoutResult[1].nodes) = Len(allNodes)
    /\ DOMAIN nodePositions = IdsOf(allNodes)
    /\ \A i \in DOMAIN allNodes :
         /\ layoutResult[1].nodes[i].id = allNodes[i].id
         /\ layoutResult[1].nodes[i].pos =
              Polar(0, 0, ClampedRadius(Len(allNodes)), i - 1, Len(allNodes))

\* The fallback ran in contextual mode on a list long enough for the radius to
\* be capped at 300.
C9_Witness ==
  /\ lpc = "done"
  /\ ~Found(call[1].selectedNodeId, allNodes)
  /\ call[1].mode = "contextual"
  /\ 30 * Len(allNodes) > 300
  /\ Len(layoutResult[1].nodes) = Len(allNodes)

\* One of the two nodes names the other in its relation list.
RelationNeighbours(nodes, a, b) ==
  \E i, j \in DOMAIN nodes :
    /\ nodes[i].id = a
    /\ nodes[j].id = b
    /\ b \in Range(getNodeRelationIds(nodes[i])) \/ a \in Range(getNodeRelationIds(nodes[j]))

(***************************************************************************)
(* C10: in standard layout a node that is not the focal node, not a        *)
(* descendant within depthLimit, not the focal node's parent and not a     *)
(* relation neighbour of the focal node is omitted from the returned       *)
(* positioned-node list.                                                   *)
(***************************************************************************)
C10_UnpositionedOmitted ==
  (StandardDone /\ AcyclicParents(allNodes)) =>
    \A i \in DOMAIN allNodes :
      LET x == allNodes[i].id
          F == call[1].selectedNodeId
          k == Hops(allNodes, x, F)
      IN  (/\ x # F
           /\ ~(k >= 1 /\ k <= call[1].depthLimit)
           /\ x # ParentIn(allNodes, F)
           /\ ~RelationNeighbours(allNodes, x, F))
          => x \notin ResultIds

\* The input edge a returned layout edge was made from.
InputEdgeOf(e) == Edge(e.source, e.target, e.edgeType)

ReturnedEdges == Map(layoutResult[1].edges, InputEdgeOf)

BothPositioned(e) == e.source \in Keys(posLog) /\ e.target \in Keys(posLog)

(***************************************************************************)
(* C11: every layout call returns exactly the input edges whose source and *)
(* target were both assigned a position in that call, in their order, and  *)
(* no edge with an endpoint that is absent from the node list.             *)
(***************************************************************************)
C11_EdgesOfPositioned ==
  lpc = "done" =>
    /\ ReturnedEdges = Filter(allEdges, BothPositioned)
    /\ \A i \in DOMAIN ReturnedEdges :
         /\ ReturnedEdges[i].source \in IdsOf(allNodes)
         /\ ReturnedEdges[i].target \in IdsOf(allNodes)

\* The part of C11 about positions alone.
EdgesOfPositionedOnly == lpc = "done" => ReturnedEdges = Filter(allEdges, BothPositioned)

\* What an engine constructed for the call alone builds and writes.
FreshGraph(edges) ==
  [parents |-> ParentsOf(EmptyMap, edges),
   children |-> ChildrenOf(EmptyMap, edges),
   relations |-> PairsOf(<<>>, edges, "relation"),
   cross |-> PairsOf(<<>>, edges, "cross-workspace")]

FreshWrites(nodes, graph, c) ==
  IF ~Found(c.selectedNodeId, nodes) THEN layoutAllNodesCircle(nodes)
  ELSE IF c.mode = "standard"
       THEN StandardWrites(<<>>,
                           layoutHierarchyTree(c.selectedNodeId, nodes, graph.children,
                                               graph.parents, c.depthLimit, 0),
                           c.selectedNodeId, nodes, graph.relations)
       ELSE contextualZones(<<>>, c.selectedNodeId, nodes, graph.children, graph.parents,
                            graph.relations, graph.cross)

FreshPositions(nodes, edges, c) ==
  Apply(EmptyMap, FreshWrites(nodes, FreshGraph(edges), c))

SameAsFresh(nodes, edges, c, graph, positions, result) ==
  /\ result = ResultOf(nodes, edges, positions)
  /\ positions = FreshPositions(nodes, edges, c)
  /\ graph = FreshGraph(edges)

(***************************************************************************)
(* C12: whatever calls an engine served before, a call returns the nodes   *)
(* and edges that a freshly constructed engine of the same configuration   *)
(* returns for its arguments, and leaves no position, hierarchy entry or   *)
(* edge key of an earlier call in the engine.                              *)
(***************************************************************************)
C12_NoLeakAcrossCalls ==
  [][callsLeft' < callsLeft =>
       SameAsFresh(allNodes', allEdges', call'[1],
                   [parents |-> hierarchyParents', children |-> hierarchyChildren',
                    relations |-> relationEdges', cross |-> crossWorkspaceEdges'],
                   nodePositions', layoutResult'[1])]_vars

\* A second call on one engine, after the caller's lists changed, in another
\* mode or for another focal node than the first, with fewer positions than
\* the engine held before it.
C12_Witness ==
  /\ callsLeft = 0
  /\ lpc = "done"
  /\ Len(allEdges) < MaxRepeatEdges
  /\ allEdges # <<>>
  /\ Found(call[1].selectedNodeId, allNodes)
  /\ Cardinality(DOMAIN nodePositions) < Len(allNodes)

\* Both components on one node list whose order is not the order of updatedAt,
\* with the edges the app builds from it.
FieldsFrame(i, v) ==
  [updatedAt |-> Epoch(i),
   parentId |-> IF v.hasParent THEN Before(i) ELSE Null,
   relations |-> IF v.linked THEN <<Before(i)>> ELSE <<>>]

VarFrame == [hasParent : BOOLEAN, linked : BOOLEAN]

InitFrame ==
  /\ allNodes \in NodeLists(VarFrame, FieldsFrame, NumNodes)
  /\ options = <<>>
  /\ CtxIdle
  /\ LayoutIdle
  /\ StoresIdle
  /\ AppEngine

NextFrame ==
  \/ NextCtx
  \/ NextEngine

SpecFrame == InitFrame /\ [][NextFrame]_vars

TagDb == <<"d", "b">>

FieldsScore(i, v) ==
  [parentId |-> IF i = NumNodes THEN Ids[1] ELSE Null, updatedAt |-> Epoch(i)] @@ v

VarScore ==
  [tags : {<<TagAi>>, <<TagAiPadded, TagMl>>, <<TagMl, TagAi, TagDb>>},
   title : {TxtAbc, TxtShort}]

InitScore ==
  /\ allNodes \in NodeLists(VarScore, FieldsScore, NumNodes)
  /\ options = <<>>
  /\ CtxIdle
  /\ LayoutIdle
  /\ StoresIdle
  /\ AppEngine

SpecScore == InitScore /\ [][NextCtx]_vars

\* |left /\ right| and |left \/ right|, the union counted as 1 when it is empty.
Overlap(left, right) == Cardinality(left \cap right)

Extent(left, right) == IF left \cup right = {} THEN 1 ELSE Cardinality(left \cup right)

\* 10000 * (0.65 * tags + 0.35 * keywords) of two nodes, times both extents.
WeightedSum(a, b) ==
  6500 * Overlap(toStringSet(a.tags), toStringSet(b.tags))
       * Extent(tokenizeNode(a), tokenizeNode(b))
    + 3500 * Overlap(tokenizeNode(a), tokenizeNode(b))
           * Extent(toStringSet(a.tags), toStringSet(b.tags))

Extents(a, b) ==
  Extent(toStringSet(a.tags), toStringSet(b.tags)) * Extent(tokenizeNode(a), tokenizeNode(b))

Unlinked(a, b) ==
  /\ a.id # b.id
  /\ a.id \notin Range(b.relations)
  /\ b.id \notin Range(a.relations)
  /\ a.parentId # b.id
  /\ b.parentId # a.id

\* Same workspace, unlinked, the same non-empty tag set, no keyword in common.
TwinTags(a, b) ==
  /\ a.workspaceId = b.workspaceId
  /\ Unlinked(a, b)
  /\ toStringSet(a.tags) = toStringSet(b.tags)
  /\ toStringSet(a.tags) # {}
  /\ tokenizeNode(a) \cap tokenizeNode(b) = {}

SuggestedFor(v, id) ==
  {v.suggestedRelatedNodes[i].score :
     i \in {k \in DOMAIN v.suggestedRelatedNodes : v.suggestedRelatedNodes[k].node.id = id}}

StringSetsOf(nodes) ==
  {toStringSet(nodes[i].tags) : i \in DOMAIN nodes}
    \cup {tokenizeNode(nodes[i]) : i \in DOMAIN nodes}

(***************************************************************************)
(* C15: Jaccard bounds.  jaccardSimilarity(L, R) is |L /\ R| / |L \/ R|,   *)
(* between 0 and 1: 0 for disjoint non-empty sets, 1 for equal non-empty   *)
(* sets, 0 (and no division by zero) for two empty sets; every suggestion  *)
(* score is between 0 and 1.                                               *)
(***************************************************************************)
C15_JaccardBounds ==
  /\ \A L, R \in StringSetsOf(allNodes) :
       LET j == jaccardSimilarity(L, R)
       IN  /\ j.den > 0
           /\ 0 <= j.num /\ j.num <= j.den
           /\ j.num * Extent(L, R) = Overlap(L, R) * j.den
           /\ (L # {} /\ R # {} /\ L \cap R = {}) => j.num = 0
           /\ (L # {} /\ L = R) => j.num = j.den
           /\ (L = {} /\ R = {}) => j.num = 0
  /\ Returned =>
       \A i \in DOMAIN view[1].suggestedRelatedNodes :
         /\ 0 <= view[1].suggestedRelatedNodes[i].score
         /\ view[1].suggestedRelatedNodes[i].score <= 10000

\* The nodes give an empty set, two disjoint non-empty sets and two sets that
\* overlap in part, and a view with suggestions was returned.
C15_Witness ==
  /\ Returned
  /\ view[1].suggestedRelatedNodes # <<>>
  /\ {} \in StringSetsOf(allNodes)
  /\ \E L, R \in StringSetsOf(allNodes) : L # {} /\ R # {} /\ L \cap R = {}
  /\ \E L, R \in StringSetsOf(allNodes) : L \cap R # {} /\ L # R

(***************************************************************************)
(* C16: every returned layout edge has the edgeType of its input edge, and *)
(* is straight exactly when that is hierarchy and curved exactly when it   *)
(* is relation or cross-workspace, in every mode.                          *)
(***************************************************************************)
C16_CurvedByType ==
  lpc = "done" =>
    /\ \A i \in DOMAIN ReturnedEdges :
         \E k \in DOMAIN allEdges : allEdges[k] = ReturnedEdges[i]
    /\ \A i \in DOMAIN layoutResult[1].edges :
         LET e == layoutResult[1].edges[i]
         IN  /\ e.isCurved = FALSE <=> e.edgeType = "hierarchy"
             /\ e.isCurved = TRUE <=> e.edgeType \in {"relation", "cross-workspace"}

\* A call returned a hierarchy edge, a relation edge and a cross-workspace edge.
C16_Witness ==
  /\ lpc = "done"
  /\ {layoutResult[1].edges[i].edgeType : i \in DOMAIN layoutResult[1].edges}
       = {"hierarchy", "relation", "cross-workspace"}

(***************************************************************************)
(* C17: single assignment.  In one layout or layoutContextual call no node *)
(* id is given a position twice: no step and no recursive call writes a    *)
(* position for a node that already has one from that call (stated for    *)
(* the hierarchies that are forests, where no node is met twice).          *)
(***************************************************************************)
C17_SingleAssignment ==
  (lpc = "done" /\ AcyclicParents(allNodes)) =>
    \A i, j \in DOMAIN posLog : i # j => posLog[i].id # posLog[j].id

\* The (parent, child) pairs of the hierarchy edges and the pairs joined by a
\* path of at most hops of them.
HierarchyPairs(edges) ==
  {<<edges[k].source, edges[k].target>> :
     k \in {j \in DOMAIN edges : edges[j].edgeType = "hierarchy"}}

RECURSIVE HierarchyPaths(_, _)
HierarchyPaths(edges, hops) ==
  IF hops <= 1 THEN HierarchyPairs(edges)
  ELSE LET shorter == HierarchyPaths(edges, hops - 1)
           joined == {pq \in shorter \X HierarchyPairs(edges) : pq[1][2] = pq[2][1]}
       IN  shorter \cup {<<pq[1][1], pq[2][2]>> : pq \in joined}

HierarchyCycle(edges) == \E p \in HierarchyPaths(edges, Len(edges)) : p[1] = p[2]

(***************************************************************************)
(* C18: on an edge list whose hierarchy edges form a cycle, and for any    *)
(* depthLimit >= 0, layout and layoutContextual return a result after a    *)
(* bounded number of position writes, with the focal node at the origin.   *)
(***************************************************************************)
C18_CyclesFocalAtOrigin ==
  (lpc = "done" /\ HierarchyCycle(allEdges) /\ Found(call[1].selectedNodeId, allNodes)) =>
    /\ layoutResult # <<>>
    /\ ResultAt(call[1].selectedNodeId, Point(0, 0))

\* The nodes a relation edge joins to id, in either direction, in edge order.
RelationNeighbourIds(edges, id) ==
  LET Joins(e) == e.edgeType = "relation" /\ (e.source = id \/ e.target = id)
      Other(e) == IF e.source = id THEN e.target ELSE e.source
  IN  Distinct(Map(Filter(edges, Joins), Other))

\* Those of them that are nodes of the list and that the hierarchy step left
\* without a position.
RadialNeighbourIds(nodes, edges, id, placed) ==
  LET Free(x) == x \in IdsOf(nodes) /\ x \notin placed
  IN  Filter(RelationNeighbourIds(edges, id), Free)

\* The writes of a call that put a node on a circle.
CircleWrites(log) ==
  LET OnCircle(w) == w.pos.r # 0
  IN  Filter(log, OnCircle)

(***************************************************************************)
(* C19: radial relations in standard layout.  The nodes joined to the      *)
(* focal node by a relation edge in either direction, that are in the node *)
(* list and were not positioned by the hierarchy step, are placed at       *)
(* relationRadialDistance from the focal node, the i-th of n at angle      *)
(* i * 360 / n; no other node is placed by this step, so a neighbour the   *)
(* hierarchy step positioned keeps that position and a node related to a   *)
(* non-focal node only is not placed.                                      *)
(***************************************************************************)
C19_RadialRelations ==
  StandardDone =>
    LET F == call[1].selectedNodeId
        around == RadialNeighbourIds(allNodes, allEdges, F, hierKeys)
    IN  CircleWrites(posLog) =
          [i \in DOMAIN around |->
             Write(around[i],
                   Polar(nodePositions[F].x, nodePositions[F].y,
                         layoutConfig.relationRadialDistance, i - 1, Len(around)))]

\* One relation neighbour is the source of its edge and is put on the circle,
\* another was positioned by the hierarchy step, and a relation edge joins two
\* nodes of which one is not the focal node.
C19_Witness ==
  /\ StandardDone
  /\ \E k \in DOMAIN allEdges, w \in DOMAIN CircleWrites(posLog) :
       /\ allEdges[k].edgeType = "relation"
       /\ allEdges[k].target = call[1].selectedNodeId
       /\ CircleWrites(posLog)[w].id = allEdges[k].source
  /\ \E x \in Range(RelationNeighbourIds(allEdges, call[1].selectedNodeId)) :
       x \in hierKeys /\ x # call[1].selectedNodeId
  /\ \E k \in DOMAIN allEdges :
       /\ allEdges[k].edgeType = "relation"
       /\ allEdges[k].source # call[1].selectedNodeId
       /\ allEdges[k].target # call[1].selectedNodeId

ContextualDone ==
  /\ lpc = "done"
  /\ call[1].mode = "contextual"
  /\ Found(call[1].selectedNodeId, allNodes)

\* The sources of the hierarchy edges into id.
HierarchyParentIds(edges, id) ==
  {edges[k].source : k \in {j \in DOMAIN edges :
                              edges[j].edgeType = "hierarchy" /\ edges[j].target = id}}

\* The targets of the hierarchy edges out of id that are nodes of the list,
\* in edge order.
HierarchyChildNodes(nodes, edges, id) ==
  LET From(e) == e.edgeType = "hierarchy" /\ e.source = id
      Target(e) == e.target
      Known(x) == x \in IdsOf(nodes)
  IN  Filter(Map(Filter(edges, From), Target), Known)

\* The nodes an edge of any type joins to id.
NeighbourIds(edges, id) ==
  {edges[k].source : k \in {j \in DOMAIN edges : edges[j].target = id}}
    \cup {edges[k].target : k \in {j \in DOMAIN edges : edges[j].source = id}}

\* No hierarchy edge into the focal node comes from the focal node or from one
\* of its children.
ParentApartFromChildren(edges, id) ==
  /\ id \notin HierarchyParentIds(edges, id)
  /\ \A p \in HierarchyParentIds(edges, id) : id \notin HierarchyParentIds(edges, p)

ZonesAsStated(F) ==
  LET below == HierarchyChildNodes(allNodes, allEdges, F)
  IN  /\ ResultAt(F, Point(0, 0))
      /\ \A p \in HierarchyParentIds(allEdges, F) :
           (HierarchyParentIds(allEdges, F) = {p} /\ Found(p, allNodes)) =>
             ResultAt(p, Point(0, 0 - 180))
      /\ \A i \in DOMAIN below :
           ResultAt(below[i], Point(0 - ((Len(below) - 1) * 160) \div 2 + (i - 1) * 160, 180))
      /\ DOMAIN nodePositions \subseteq {F} \cup NeighbourIds(allEdges, F)

(***************************************************************************)
(* C20: contextual layout, the centre, above and below zones.  With a      *)
(* focal node F of the node list, F is at (0,0); the direct parent of F,   *)
(* if it is a node of the list, is at (0,-180), and no ancestor beyond it  *)
(* gets a position; the k direct children of F are at y = 180 with         *)
(* x = -(k-1)*160/2 + i*160 for i = 0..k-1, and no grandchild gets a       *)
(* position; the coordinates are the same for every depth limit and every  *)
(* hierarchyVerticalGap and childHorizontalSpacing of the engine.          *)
(***************************************************************************)
C20_ContextualZones ==
  ContextualDone => ZonesAsStated(call[1].selectedNodeId)

\* The same zones when no parent of the focal node is the focal node itself
\* or one of its children.
ContextualZonesApart ==
  (ContextualDone /\ ParentApartFromChildren(allEdges, call[1].selectedNodeId)) =>
    ZonesAsStated(call[1].selectedNodeId)

\* A focal node with a parent and a child in the list, under the
\* configuration of the scene.
ContextualZonesApartReached ==
  /\ ContextualDone
  /\ ParentApartFromChildren(allEdges, call[1].selectedNodeId)
  /\ layoutConfig = SceneConfig
  /\ Cardinality(HierarchyParentIds(allEdges, call[1].selectedNodeId)) = 1
  /\ Len(HierarchyChildNodes(allNodes, allEdges, call[1].selectedNodeId)) = 1

\* The contextual zones with many neighbours: the first node joined to every
\* other id by edges of one type, in one direction, with or without the second
\* node as its parent; the node list holds some of the ids.
StarEdges(edgeType, outward, withParent) ==
  (IF withParent THEN <<Edge(Ids[2], Ids[1], "hierarchy")>> ELSE <<>>)
    \o [k \in 1..(MaxZoneNodes - 1) |->
          IF outward THEN Edge(Ids[1], Ids[k + 1], edgeType)
          ELSE Edge(Ids[k + 1], Ids[1], edgeType)]

InitZones ==
  /\ allNodes \in BareNodes(MaxZoneNodes)
  /\ \E edgeType \in {"relation", "cross-workspace"}, outward \in BOOLEAN,
        withParent \in BOOLEAN :
       allEdges = StarEdges(edgeType, outward, withParent)
  /\ layoutConfig = DEFAULT_CONFIG
  /\ callsLeft = 1
  /\ options = <<>>
  /\ CtxIdle
  /\ LayoutIdle
  /\ StoresIdle

SpecZones == InitZones /\ [][NextEngine]_vars

\* The ids the centre, above and below zones of a contextual call hold.
InnerZoneIds(F) ==
  {F} \cup Range(MapGet(hierarchyParents, F))
      \cup Range(HierarchyChildNodes(allNodes, allEdges, F))

\* The nodes an edge of the type joins to id, in either direction, in edge order.
NeighbourIdsOfType(edges, id, edgeType) ==
  LET Joins(e) == e.edgeType = edgeType /\ (e.source = id \/ e.target = id)
      Other(e) == IF e.source = id THEN e.target ELSE e.source
  IN  Distinct(Map(Filter(edges, Joins), Other))

\* The relation neighbours of F that are nodes of the list outside the inner zones.
AroundIds(F) ==
  LET Free(x) == x \in IdsOf(allNodes) /\ x \notin InnerZoneIds(F)
  IN  Filter(NeighbourIdsOfType(allEdges, F, "relation"), Free)

\* The angle k/n of a turn, in degrees times n.
InArc(pos) == 45 * pos.n <= 360 * pos.k /\ 360 * pos.k <= 315 * pos.n

\* The direction from the origin to the parent position (0,-180): 270 degrees.
TowardsParent(pos) == pos.r > 0 /\ 360 * pos.k = 270 * pos.n

\* 45 + i * 270 / (n - 1) degrees (45 when n = 1) as a part of the turn
ArcAngle(i, n, pos) ==
  IF n = 1 THEN 360 * pos.k = 45 * pos.n
  ELSE 360 * pos.k * (n - 1) = (45 * (n - 1) + i * 270) * pos.n

AroundAsStated(F) ==
  \A i \in DOMAIN AroundIds(F) :
    LET pos == nodePositions[AroundIds(F)[i]]
    IN  /\ pos.x = 0 /\ pos.y = 0 /\ pos.r = 280
        /\ ArcAngle(i - 1, Len(AroundIds(F)), pos)
        /\ InArc(pos)

(***************************************************************************)
(* C21: contextual layout, the around zone.  The n relation neighbours of  *)
(* the focal node that the centre, above and below zones did not place are *)
(* at distance 280 from the focal node, the i-th at 45 + i * 270 / (n - 1) *)
(* degrees (45 when n = 1), so every angle is between 45 and 315 degrees,  *)
(* and none of them is placed in the direction of the parent position      *)
(* (0,-180).                                                               *)
(***************************************************************************)
C21_AroundArc ==
  ContextualDone =>
    /\ AroundAsStated(call[1].selectedNodeId)
    /\ \A x \in Range(AroundIds(call[1].selectedNodeId)) : ~TowardsParent(nodePositions[x])

\* The distance and the angles alone.
AroundDistanceAndAngles == ContextualDone => AroundAsStated(call[1].selectedNodeId)

AroundReached ==
  /\ ContextualDone
  /\ Len(AroundIds(call[1].selectedNodeId)) >= 3
  /\ hierarchyParents # <<>>

\* The cross-workspace neighbours of F that are nodes of the list and that no
\* earlier zone placed.
PeripheralIds(F) ==
  LET Free(x) == x \in IdsOf(allNodes) /\ x \notin InnerZoneIds(F)
                                       /\ x \notin Range(AroundIds(F))
  IN  Filter(NeighbourIdsOfType(allEdges, F, "cross-workspace"), Free)

\* The y coordinates of the peripheral nodes on the side x.
StackAt(F, x) ==
  {nodePositions[id].y : id \in {p \in Range(PeripheralIds(F)) : nodePositions[p].x = x}}

SidesAlternate(F) ==
  \A i \in DOMAIN PeripheralIds(F) :
    LET pos == nodePositions[PeripheralIds(F)[i]]
    IN  /\ pos.r = 0
        /\ pos.x = IF (i - 1) % 2 = 0 THEN 400 ELSE 0 - 400
        /\ i > 2 => pos.y = nodePositions[PeripheralIds(F)[i - 2]].y + 80

SymmetricAboutZero(ys) == \A y \in ys : (0 - y) \in ys

(***************************************************************************)
(* C22: contextual layout, the peripheral zone.  The m cross-workspace     *)
(* neighbours of the focal node not placed by an earlier zone are put on   *)
(* the right (x = 400) and on the left (x = -400) in turn, starting on the *)
(* right; on each side they are 80 apart, and the y coordinates of a side  *)
(* are symmetric about 0 (one peripheral node alone is at y = 0).          *)
(***************************************************************************)
C22_PeripheralStacks ==
  ContextualDone =>
    /\ SidesAlternate(call[1].selectedNodeId)
    /\ SymmetricAboutZero(StackAt(call[1].selectedNodeId, 400))
    /\ SymmetricAboutZero(StackAt(call[1].selectedNodeId, 0 - 400))

\* The sides and the spacing alone.
PeripheralSidesAndSpacing == ContextualDone => SidesAlternate(call[1].selectedNodeId)

PeripheralReached ==
  /\ ContextualDone
  /\ Len(PeripheralIds(call[1].selectedNodeId)) >= 5

\* One peripheral node, alone on the right.
PeripheralAlone ==
  (ContextualDone /\ Len(PeripheralIds(call[1].selectedNodeId)) = 1) =>
    ResultAt(PeripheralIds(call[1].selectedNodeId)[1], Point(400, 0))

\* Work items in a hierarchy: a node is a child of the node before it or of the
\* first node, or a root; it is a pending, a completed or a status-less todo, a
\* pending task of another type, or a pending todo of another workspace (the
\* first node is in w1).  From the fourth node on, a node is a pending todo
\* under the node before it.
FieldsTodo(i, v) ==
  IF i > 3 THEN [parentId |-> Before(i), type |-> "todo", status |-> "pending"] ELSE
  [parentId |-> CASE v.under = "none" -> Null
                  [] v.under = "before" -> Before(i)
                  [] v.under = "first" -> Ids[1],
   type |-> IF v.work = "task" THEN "task" ELSE "todo",
   status |-> CASE v.work = "completed" -> "completed"
                [] v.work = "open" -> "none"
                [] OTHER -> "pending",
   workspaceId |-> IF i > 1 /\ v.work = "elsewhere" THEN "w2" ELSE "w1"]

VarTodo ==
  [under : {"none", "before", "first"},
   work : {"pending", "completed", "open", "task", "elsewhere"}]

InitTodo ==
  /\ allNodes \in NodeLists(VarTodo, FieldsTodo, NumNodes)
  /\ options = <<>>
  /\ CtxIdle
  /\ LayoutIdle
  /\ StoresIdle
  /\ AppEngine

SpecTodo == InitTodo /\ [][NextCtx]_vars

\* The children, in list order, of the nodes of frontier, in its order.
RECURSIVE ChildrenOfAll(_, _)
ChildrenOfAll(nodes, frontier) ==
  IF frontier = <<>> THEN <<>>
  ELSE ChildrenInOrder(nodes, Head(frontier).id) \o ChildrenOfAll(nodes, Tail(frontier))

\* The nodes below frontier level by level, frontier first.
RECURSIVE LevelsFrom(_, _, _)
LevelsFrom(nodes, frontier, hops) ==
  IF hops = 0 \/ frontier = <<>> THEN <<>>
  ELSE frontier \o LevelsFrom(nodes, ChildrenOfAll(nodes, frontier), hops - 1)

BreadthFirstBelow(nodes, id) ==
  LevelsFrom(nodes, ChildrenInOrder(nodes, id), Len(nodes))

PendingWork(node) == node.type = "todo" /\ node.status = "pending"

SameWorkspace(node, nodes) ==
  LET Same(candidate) == candidate.workspaceId = node.workspaceId
  IN  Filter(nodes, Same)

(***************************************************************************)
(* C23: pending descendant work.  When the parentId links form no cycle,   *)
(* pendingTodosInside holds exactly the nodes of the focal node's          *)
(* workspace that are proper descendants of the focal node, at any depth,  *)
(* with type "todo" and status "pending", each once, in breadth-first      *)
(* order; the focal node, completed items, items without status and nodes  *)
(* that are not descendants are not listed.                                *)
(***************************************************************************)
C23_PendingDescendants ==
  (Returned /\ AcyclicParents(allNodes)) =>
    LET F == view[1].node
        ws == SameWorkspace(F, allNodes)
        listed == view[1].pendingTodosInside
    IN  /\ listed = Filter(BreadthFirstBelow(ws, F.id), PendingWork)
        /\ IdsOf(listed) = {x.id : x \in {n \in Range(ws) : Hops(ws, n.id, F.id) >= 1
                                                          /\ PendingWork(n)}}
        /\ \A i, j \in DOMAIN listed : listed[i].id = listed[j].id => i = j
        /\ F.id \notin IdsOf(listed)

\* A pending grandchild is listed, the child between it and the focal node, a
\* todo that is not pending, is not.
C23_Witness ==
  /\ Returned
  /\ AcyclicParents(allNodes)
  /\ Len(view[1].pendingTodosInside) = 1
  /\ Hops(allNodes, view[1].pendingTodosInside[1].id, view[1].node.id) = 2
  /\ \E i \in DOMAIN allNodes :
       /\ allNodes[i].type = "todo"
       /\ allNodes[i].status # "pending"
       /\ allNodes[i].parentId = view[1].node.id

\* Candidates that tie: every node has the same title; a node has one of three
\* tag lists and one of two timestamps.  The first node is fixed, the second is
\* its child.
FieldsRank(i, v) ==
  IF i = 1 THEN [tags |-> <<TagAi, TagMl>>, title |-> TxtAbc, updatedAt |-> Epoch(1)]
  ELSE [parentId |-> IF i = 2 THEN Ids[1] ELSE Null, title |-> TxtAbc] @@ v

VarRank ==
  [tags : {<<TagAi>>, <<TagAiPadded, TagMl>>, <<TagDb>>},
   updatedAt : {Epoch(1), Epoch(2)}]

RankOptions ==
  {<<>>,
   [suggestionLimit |-> 0],
   [suggestionLimit |-> 1],
   [suggestionLimit |-> 2],
   [suggestionLimit |-> 2, minSuggestionScore |-> 5000]}

InitRank ==
  /\ allNodes \in NodeLists(VarRank, FieldsRank, NumRankNodes)
  /\ options \in RankOptions
  /\ CtxIdle
  /\ LayoutIdle
  /\ StoresIdle
  /\ AppEngine

SpecRank == InitRank /\ [][NextCtx]_vars

\* The place of a node in the caller's list.
PlaceOf(id) == CHOOSE i \in DOMAIN allNodes : allNodes[i].id = id

\* The candidates the view retains for F: not connected, overlapping, at or above
\* the threshold.
RetainedFor(F) ==
  LET ws == SameWorkspace(F, allNodes)
  IN  {sg \in {Suggestion(F, ws[i]) : i \in DOMAIN ws} :
         /\ sg.node.id \notin AlreadyConnectedIds(F, ws)
         /\ HasOverlap(sg)
         /\ sg.score >= Config(options).minSuggestionScore}

\* left ranks strictly above right: higher score, else later updatedAt, else
\* earlier in the input.
RanksAbove(left, right) ==
  \/ left.score > right.score
  \/ /\ left.score = right.score
     /\ left.node.updatedAt.ms > right.node.updatedAt.ms
  \/ /\ left.score = right.score
     /\ left.node.updatedAt.ms = right.node.updatedAt.ms
     /\ PlaceOf(left.node.id) < PlaceOf(right.node.id)

(***************************************************************************)
(* C24: suggestion ranking.  suggestedRelatedNodes is the first            *)
(* suggestionLimit entries of the retained candidates ordered by score     *)
(* descending, ties by updatedAt descending, remaining ties by input       *)
(* order: it has at most suggestionLimit entries, is sorted by that order, *)
(* and no retained candidate left out ranks above one that is included.    *)
(***************************************************************************)
C24_SuggestionRanking ==
  Returned =>
    LET listed == view[1].suggestedRelatedNodes
        retained == RetainedFor(view[1].node)
        limit == Config(options).suggestionLimit
    IN  /\ Len(listed) = Min2(limit, Cardinality(retained))
        /\ Range(listed) \subseteq retained
        /\ \A i, j \in DOMAIN listed : i < j => RanksAbove(listed[i], listed[j])
        /\ \A out \in retained \ Range(listed) :
             \A i \in DOMAIN listed : ~RanksAbove(out, listed[i])

\* Two listed candidates tie on the score and the one later in the input comes
\* first, and a retained candidate is cut off by the limit.
C24_Witness ==
  /\ Returned
  /\ Len(view[1].suggestedRelatedNodes) = 2
  /\ Cardinality(RetainedFor(view[1].node)) = 3
  /\ view[1].suggestedRelatedNodes[1].score = view[1].suggestedRelatedNodes[2].score
  /\ PlaceOf(view[1].suggestedRelatedNodes[1].node.id)
       > PlaceOf(view[1].suggestedRelatedNodes[2].node.id)

\* Connected nodes with timestamps before and after 1970 and timestamps that do
\* not parse: a node names no node, the node before it, or the nodes around it.
NoDate == [valid |-> FALSE, ms |-> 0]

FieldsRecent(i, v) ==
  [parentId |-> IF i = 2 THEN Ids[1] ELSE Null,
   relations |-> CASE v.links = "none" -> <<>>
                   [] v.links = "before" -> <<Before(i)>>
                   [] v.links = "around" -> <<After(i), Before(i)>>,
   updatedAt |-> v.updatedAt]

VarRecent ==
  [links : {"none", "before", "around"},
   updatedAt : {Epoch(0 - 1), Epoch(1), NoDate}]

RecentOptions == {<<>>, [recentlyConnectedLimit |-> 1]}

InitRecent ==
  /\ allNodes \in NodeLists(VarRecent, FieldsRecent, NumNodes)
  /\ options \in RecentOptions
  /\ CtxIdle
  /\ LayoutIdle
  /\ StoresIdle
  /\ AppEngine

SpecRecent == InitRecent /\ [][NextCtx]_vars

\* left is more recent than right; a timestamp that does not parse is earlier
\* than every timestamp that parses.
MoreRecent(left, right) ==
  /\ left.updatedAt.valid
  /\ right.updatedAt.valid => left.updatedAt.ms > right.updatedAt.ms

ConnectedTo(v) == Range(v.directRelations) \cup Range(v.backlinks)

RecentAsStated(v) ==
  LET listed == v.recentlyConnectedNodes
      limit == Config(options).recentlyConnectedLimit
  IN  /\ Range(listed) \subseteq ConnectedTo(v)
      /\ \A i, j \in DOMAIN listed : listed[i].id = listed[j].id => i = j
      /\ Len(listed) = Min2(limit, Cardinality(ConnectedTo(v)))
      /\ \A i, j \in DOMAIN listed : i < j => ~MoreRecent(listed[j], listed[i])
      /\ \A out \in ConnectedTo(v) \ Range(listed) :
           \A i \in DOMAIN listed : ~MoreRecent(out, listed[i])

(***************************************************************************)
(* C25: recently connected.  recentlyConnectedNodes holds only nodes of    *)
(* directRelations and backlinks, no id twice, ordered by updatedAt        *)
(* descending, every node whose updatedAt does not parse after every node  *)
(* whose updatedAt parses (also one before 1970), and it is the first      *)
(* recentlyConnectedLimit entries of that order.                           *)
(***************************************************************************)
C25_RecentlyConnected == Returned => RecentAsStated(view[1])

\* The same when every connected node has a timestamp that parses.
RecentAmongParsed ==
  (Returned /\ \A n \in ConnectedTo(view[1]) : n.updatedAt.valid) => RecentAsStated(view[1])

RecentAmongParsedReached ==
  /\ Returned
  /\ (\A n \in ConnectedTo(view[1]) : n.updatedAt.valid)
  /\ Cardinality(ConnectedTo(view[1])) = 2
  /\ Len(view[1].recentlyConnectedNodes) = 1
  /\ (\E both \in Range(view[1].directRelations) : both \in Range(view[1].backlinks))

\* A node before 1970 and a node without a date, both listed.
RecentPast ==
  (Returned /\ Len(view[1].recentlyConnectedNodes) = 2
            /\ (\E n \in ConnectedTo(view[1]) : ~n.updatedAt.valid)
            /\ (\E past \in ConnectedTo(view[1]) : past.updatedAt = Epoch(0 - 1)))
    => ~view[1].recentlyConnectedNodes[2].updatedAt.valid

ViewFields ==
  {"node", "directRelations", "backlinks", "sharedTagNodes", "recentlyConnectedNodes",
   "parentNode", "childNodes", "pendingTodosInside", "suggestedRelatedNodes"}

\* The ids of the relation list that name a node of the list nodes, in order.
ResolvedIn(relations, nodes) ==
  LET Known(id) == id \in IdsOf(nodes)
  IN  Filter(relations, Known)

RelationOrderReached ==
  /\ Returned
  /\ Len(view[1].directRelations) = 2
  /\ PlaceOf(view[1].directRelations[1].id) > PlaceOf(view[1].directRelations[2].id)

\* Node records as a caller may build them, not passed through
\* normalizeNodeEntity: relationIds and relations are chosen apart, each may name
\* the node before, relations also the node after and a deleted node; a node may
\* hold cross-workspace references.  The second node is a child of the first,
\* the third names a deleted parent.  From the fourth node on the fields are
\* those of BaseNode.
FieldsRaw(i, v) ==
  IF i > 3 THEN <<>> ELSE
  [parentId |-> IF i = 2 THEN Ids[1] ELSE IF i = 3 THEN MissingId ELSE Null,
   relationIds |-> IF v.byId THEN <<Before(i)>> ELSE <<>>,
   relations |-> CASE v.byRelation = "none" -> <<>>
                   [] v.byRelation = "before" -> <<Before(i)>>
                   [] v.byRelation = "after" -> <<After(i), MissingId>>,
   crossWorkspaceRefs |-> IF v.across THEN <<Before(i), MissingId>> ELSE <<>>]

VarRaw ==
  [byId : BOOLEAN, byRelation : {"none", "before", "after"}, across : BOOLEAN]

RawNodeLists(count) ==
  UNION {{[i \in 1..n |-> [id |-> Ids[i]] @@ FieldsRaw(i, g[i]) @@ BaseNode]
          : g \in [1..n -> VarRaw]}
         : n \in 0..count}

InitRaw ==
  /\ allNodes \in RawNodeLists(NumNodes)
  /\ options = <<>>
  /\ CtxIdle
  /\ LayoutIdle
  /\ StoresIdle
  /\ AppEngine

SpecRaw == InitRaw /\ [][NextCtx]_vars

\* The ids a node lists among its relation ids, in either field.
RelationIdsOf(node) == Range(node.relationIds) \cup Range(node.relations)

NodeOf(id) == allNodes[PlaceOf(id)]

EdgesOfType(edgeType) == {e \in Range(allEdges) : e.edgeType = edgeType}

Ends(e) == {e.source, e.target}

\* The unordered pairs of ids of the list of which one lists the other.
RelationPairs ==
  {{p[1], p[2]} : p \in {q \in IdsOf(allNodes) \X IdsOf(allNodes) :
                           q[2] \in RelationIdsOf(NodeOf(q[1]))}}

CrossPairs ==
  {{p[1], p[2]} : p \in {q \in IdsOf(allNodes) \X IdsOf(allNodes) :
                           q[2] \in Range(NodeOf(q[1]).crossWorkspaceRefs)}}

OnePerPair(edges, pairs) ==
  /\ \A pair \in pairs : Cardinality({e \in edges : Ends(e) = pair}) = 1
  /\ \A e \in edges : Ends(e) \in pairs

(***************************************************************************)
(* C27: edge classification by buildGraphEdges.  For a node list it emits  *)
(* a hierarchy edge parent -> child for every node whose parentId is in    *)
(* the list, exactly one relation edge per unordered pair of nodes of      *)
(* which one lists the other among its relation ids, exactly one           *)
(* cross-workspace edge per unordered pair linked through                  *)
(* crossWorkspaceRefs; every edge has both ends in the list and no other   *)
(* edge is emitted.                                                        *)
(***************************************************************************)
C27_EdgeClassification ==
  /\ Len(allEdges) = Cardinality(Range(allEdges))
  /\ \A e \in Range(allEdges) :
       /\ e.edgeType \in {"hierarchy", "relation", "cross-workspace"}
       /\ Ends(e) \subseteq IdsOf(allNodes)
  /\ EdgesOfType("hierarchy")
       = {Edge(n.parentId, n.id, "hierarchy") :
            n \in {c \in Range(allNodes) : c.parentId \in IdsOf(allNodes)}}
  /\ OnePerPair(EdgesOfType("relation"), RelationPairs)
  /\ OnePerPair(EdgesOfType("cross-workspace"), CrossPairs)

\* Two nodes list each other, one of them in relationIds alone; a deleted id is
\* listed, a parent is missing, and there is an edge of each type.
C27_Witness ==
  /\ \E x, y \in IdsOf(allNodes) :
       /\ x # y
       /\ y \in Range(NodeOf(x).relationIds) /\ y \notin Range(NodeOf(x).relations)
       /\ x \in RelationIdsOf(NodeOf(y))
  /\ \E z \in IdsOf(allNodes) : MissingId \in RelationIdsOf(NodeOf(z))
  /\ \E z \in IdsOf(allNodes) : NodeOf(z).parentId = MissingId
  /\ EdgesOfType("hierarchy") # {}
  /\ EdgesOfType("relation") # {}
  /\ EdgesOfType("cross-workspace") # {}
  /\ pc = "done"

Normalized(nodes) == \A i \in DOMAIN nodes : nodes[i] = normalizeNodeEntity(nodes[i])

AdjacencyAsStated(v) ==
  \A R \in IdsOf(allNodes) \ {v.node.id} :
    (R \in IdsOf(v.directRelations) \cup IdsOf(v.backlinks))
      <=> (\E e \in EdgesOfType("relation") : Ends(e) = {v.node.id, R})

(***************************************************************************)
(* C28: the two components see the same relation adjacency.  For a node    *)
(* list of one workspace and a focal node F, a node R other than F is in   *)
(* directRelations or backlinks of the view of F if and only if            *)
(* buildGraphEdges yields a relation edge between F and R, also when the   *)
(* relationIds and relations fields of a node disagree.                    *)
(***************************************************************************)
C28_SameRelationAdjacency == Returned => AdjacencyAsStated(view[1])

\* The same for lists that went through normalizeNodeEntity.
AdjacencyWhenNormalized ==
  (Returned /\ Normalized(allNodes)) => AdjacencyAsStated(view[1])

AdjacencyWhenNormalizedReached ==
  /\ Returned
  /\ Normalized(allNodes)
  /\ view[1].directRelations # <<>>
  /\ view[1].backlinks # <<>>
  /\ IdsOf(view[1].directRelations) # IdsOf(view[1].backlinks)

(***************************************************************************)
(* The canvas graph state (apps/web/src/core/node-engine.ts).  nodesById   *)
(* is a function from the own keys of the record to nodes,                 *)
(* connectionsById the connections in insertion order (Object.values), a   *)
(* connection's place standing for its generated id.  createdAt and        *)
(* updatedAt are written and never read by these operations.               *)
(***************************************************************************)
MaxGraphCalls == 4

\* crypto.randomUUID(): the k-th identifier generated
Uuids == <<"u1", "u2", "u3", "u4", "u5", "u6", "u7", "u8">>

\* Keys every object literal inherits from Object.prototype
ObjectPrototypeKeys == {"constructor"}

\* The value inherited under such a key: a function, with no type and no data
InheritedValue == [type |-> "undefined"]

Inherited(record, key) == key \notin DOMAIN record /\ key \in ObjectPrototypeKeys

\* record[key] on a plain object: the own property, else the inherited one,
\* else undefined
Lookup(record, key) ==
  IF key \in DOMAIN record THEN <<record[key]>>
  ELSE IF Inherited(record, key) THEN <<InheritedValue>>
  ELSE <<>>

\* !record[key] is false
Truthy(record, key) == Lookup(record, key) # <<>>

\* delete record[key] on a copy
Without(record, key) == [k \in DOMAIN record \ {key} |-> record[k]]

\* lines 262-264: the two ids sorted and joined by "::", one key per unordered
\* pair of ids
makeConnectionKey(fromId, toId) == {fromId, toId}

\* title?.trim() || "Untitled" (lines 60, 102)
Untitled == <<"U", "n", "t", "i", "t", "l", "e", "d">>

TitleOrUntitled(title) == IF trim(title) = <<>> THEN Untitled ELSE trim(title)

createEmptyGraphState == [nodesById |-> <<>>, connectionsById |-> <<>>]

\* lines 52-84
createNode(state, input, id) ==
  [nodesById |-> (id :> [type |-> input.type, title |-> TitleOrUntitled(input.title)])
                   @@ state.nodesById,
   connectionsById |-> state.connectionsById]

\* lines 88-123; thrown is the TypeError of reading current.data.title or
\* current.data.checklistItems when current has no data
updateNodeThrows(state, id, patch) ==
  /\ Inherited(state.nodesById, id)
  /\ patch.title = <<>> \/ ~patch.checklistItems

updateNode(state, id, patch) ==
  LET current == Lookup(state.nodesById, id)
      type == IF patch.type # <<>> THEN patch.type[1] ELSE current[1].type
      title == IF patch.title # <<>> THEN TitleOrUntitled(patch.title[1])
               ELSE current[1].title
  IN  IF current = <<>> THEN state
      ELSE [nodesById |-> (id :> [type |-> type, title |-> title]) @@ state.nodesById,
            connectionsById |-> state.connectionsById]

\* lines 125-145
deleteNode(state, id) ==
  IF ~Truthy(state.nodesById, id) THEN state
  ELSE [nodesById |-> Without(state.nodesById, id),
        connectionsById |->
          SelectSeq(state.connectionsById,
                    LAMBDA connection : connection.fromId # id /\ connection.toId # id)]

\* lines 160-162
ExistingConnection(state, fromId, toId) ==
  \E i \in DOMAIN state.connectionsById :
    makeConnectionKey(state.connectionsById[i].fromId, state.connectionsById[i].toId)
      = makeConnectionKey(fromId, toId)

\* lines 147-185
connectNodes(state, fromId, toId) ==
  IF fromId = toId THEN [state |-> state, connected |-> FALSE]
  ELSE IF ~Truthy(state.nodesById, fromId) \/ ~Truthy(state.nodesById, toId)
    THEN [state |-> state, connected |-> FALSE]
  ELSE IF ExistingConnection(state, fromId, toId)
    THEN [state |-> state, connected |-> FALSE]
  ELSE [state |-> [nodesById |-> state.nodesById,
                   connectionsById |->
                     Append(state.connectionsById, [fromId |-> fromId, toId |-> toId])],
        connected |-> TRUE]

\* lines 255-260
normalizeNodeType(type) == IF type \in {"todo", "journal"} THEN type ELSE "note"

\* lines 213-246: the connections kept out of rawConnections, in order
RECURSIVE NormalizedConnections(_, _, _)
NormalizedConnections(rawConnections, nodes, kept) ==
  IF rawConnections = <<>> THEN kept
  ELSE LET connection == Head(rawConnections)
           keep == /\ connection.fromId # connection.toId
                   /\ Truthy(nodes, connection.fromId)
                   /\ Truthy(nodes, connection.toId)
                   /\ \A i \in DOMAIN kept :
                        makeConnectionKey(kept[i].fromId, kept[i].toId)
                          # makeConnectionKey(connection.fromId, connection.toId)
       IN  NormalizedConnections(Tail(rawConnections), nodes,
                                 IF keep THEN Append(kept, connection) ELSE kept)

\* lines 187-253
normalizeGraphState(input) ==
  LET nodes == [id \in DOMAIN input.nodesById |->
                  [type |-> normalizeNodeType(input.nodesById[id].type),
                   title |-> TitleOrUntitled(input.nodesById[id].title)]]
  IN  [nodesById |-> nodes,
       connectionsById |-> NormalizedConnections(input.connectionsById, nodes, <<>>)]

GraphState == [nodesById |-> nodesById, connectionsById |-> connectionsById]

\* A call of one of the four operations; the caller keeps the returned state
GraphCall(next, result) ==
  /\ graphCallsLeft > 0
  /\ graphCallsLeft' = graphCallsLeft - 1
  /\ nodesById' = next.nodesById
  /\ connectionsById' = next.connectionsById
  /\ connected' = result
  /\ UNCHANGED <<allNodes, allEdges, layoutConfig, callsLeft>>
  /\ UNCHANGED ctxVars
  /\ UNCHANGED <<nodePositions, hierarchyParents, hierarchyChildren, relationEdges,
                 crossWorkspaceEdges, lpc, call, hierKeys, posLog, layoutResult>>
  /\ UNCHANGED syncVars

CreateNode(input) ==
  /\ created < Len(Uuids)
  /\ created' = created + 1
  /\ GraphCall(createNode(GraphState, input, Uuids[created + 1]), <<>>)

\* A call that throws returns nothing: the caller's state stays
UpdateNode(id, patch) ==
  /\ created' = created
  /\ GraphCall(IF updateNodeThrows(GraphState, id, patch) THEN GraphState
               ELSE updateNode(GraphState, id, patch), <<>>)

DeleteNode(id) ==
  /\ created' = created
  /\ GraphCall(deleteNode(GraphState, id), <<>>)

ConnectNodes(fromId, toId) ==
  /\ created' = created
  /\ GraphCall(connectNodes(GraphState, fromId, toId).state,
               <<connectNodes(GraphState, fromId, toId).connected>>)

\* The ids a caller may name: those generated so far, an inherited key, an
\* unknown id
GraphArgIds == {Uuids[i] : i \in 1..created} \cup (DOMAIN nodesById)
                 \cup ObjectPrototypeKeys \cup {MissingId}

NodeInputs == {[type |-> "note", title |-> <<" ">>], [type |-> "todo", title |-> <<"x">>]}

NodePatches == {[type |-> <<"journal">>, title |-> <<>>, checklistItems |-> FALSE],
                [type |-> <<>>, title |-> <<<<" ">>>>, checklistItems |-> FALSE],
                [type |-> <<>>, title |-> <<<<"y">>>>, checklistItems |-> TRUE]}

NextGraph ==
  \/ \E input \in NodeInputs : CreateNode(input)
  \/ \E id \in GraphArgIds, patch \in NodePatches : UpdateNode(id, patch)
  \/ \E id \in GraphArgIds : DeleteNode(id)
  \/ \E fromId \in GraphArgIds, toId \in GraphArgIds : ConnectNodes(fromId, toId)

\* Stored graph states as normalizeGraphState receives them: nodes of any type,
\* connections that repeat a pair, join a node to itself or name an absent node.
RawNodes == ("r1" :> [type |-> "todo", title |-> <<"x">>])
              @@ ("r2" :> [type |-> "task", title |-> <<" ">>])

RawConnections ==
  <<[fromId |-> "r1", toId |-> "r2"], [fromId |-> "r2", toId |-> "r1"],
    [fromId |-> "r1", toId |-> "r1"], [fromId |-> "r1", toId |-> MissingId]>>

RawGraphStates ==
  {[nodesById |-> nodes, connectionsById |-> SelectFlagged(RawConnections, flags)] :
     nodes \in {[id \in ids |-> RawNodes[id]] : ids \in SUBSET DOMAIN RawNodes},
     flags \in [DOMAIN RawConnections -> BOOLEAN]}

InitGraph ==
  /\ allNodes = <<>>
  /\ options = <<>>
  /\ CtxIdle
  /\ LayoutIdle
  /\ AppEngine
  /\ SyncIdle
  /\ \E state \in {createEmptyGraphState} \cup {normalizeGraphState(raw) : raw \in RawGraphStates} :
       /\ nodesById = state.nodesById
       /\ connectionsById = state.connectionsById
  /\ created = 0
  /\ connected = <<>>
  /\ graphCallsLeft = MaxGraphCalls

SpecGraph == InitGraph /\ [][NextGraph]_vars

\* Every connection joins two different nodes of nodesById, and no two
\* connections join the same unordered pair.
IntegrityOf(connections) ==
  /\ \A i \in DOMAIN connections :
       /\ connections[i].fromId \in DOMAIN nodesById
       /\ connections[i].toId \in DOMAIN nodesById
       /\ connections[i].fromId # connections[i].toId
  /\ \A i \in DOMAIN connections, j \in DOMAIN connections :
       makeConnectionKey(connections[i].fromId, connections[i].toId)
         = makeConnectionKey(connections[j].fromId, connections[j].toId) => i = j

ConnectionIntegrity == IntegrityOf(connectionsById)

\* A refused connectNodes call leaves the state as it was.
RefusedLeavesState ==
  connected' = <<FALSE>> /\ graphCallsLeft' # graphCallsLeft
    => nodesById' = nodesById /\ connectionsById' = connectionsById

(***************************************************************************)
(* C29: after any sequence of createNode, updateNode, deleteNode and       *)
(* connectNodes from the empty state or from the output of                 *)
(* normalizeGraphState, every connection's ends are ids present in         *)
(* nodesById, no connection joins a node to itself, no two connections     *)
(* join the same unordered pair, and a connectNodes call that returns      *)
(* connected = false leaves the state unchanged.                           *)
(***************************************************************************)
C29_ConnectionIntegrity == []ConnectionIntegrity /\ [][RefusedLeavesState]_vars

\* The same for the connections both of whose ends are own keys or unknown
\* ids: what fails is the lookup of a key that nodesById inherits.
NamesInherited(connection) ==
  connection.fromId \in ObjectPrototypeKeys \ DOMAIN nodesById
    \/ connection.toId \in ObjectPrototypeKeys \ DOMAIN nodesById

IntegrityAmongOwnKeys ==
  /\ IntegrityOf(SelectSeq(connectionsById, LAMBDA connection : ~NamesInherited(connection)))
  /\ \A i \in DOMAIN connectionsById, j \in DOMAIN connectionsById :
       makeConnectionKey(connectionsById[i].fromId, connectionsById[i].toId)
         = makeConnectionKey(connectionsById[j].fromId, connectionsById[j].toId) => i = j
  /\ \A i \in DOMAIN connectionsById : connectionsById[i].fromId # connectionsById[i].toId

C29_OwnKeys == []IntegrityAmongOwnKeys /\ [][RefusedLeavesState]_vars

\* Two connections stand after one was refused for joining a pair already joined.
OwnKeysReached ==
  /\ Len(connectionsById) >= 1
  /\ connected = <<FALSE>>
  /\ \A i \in DOMAIN connectionsById : ~NamesInherited(connectionsById[i])

(***************************************************************************)
(* Sync (apps/web/src/lib/sync-service.ts, offline-repository.ts and       *)
(* apps/api/src/storage.js).  A store is a function from node ids to the   *)
(* stored version; a version is its updatedAt and the device that wrote    *)
(* it.  Lists of nodes are sequences of [id, version] in id order.  One    *)
(* clock gives new Date() to this device and to the server; another        *)
(* device stamps its changes with any time, or with a string that does     *)
(* not parse.                                                              *)
(***************************************************************************)
MaxClock == 1

NumSyncNodes == 1

SyncNodeIds == {Ids[i] : i \in 1..NumSyncNodes}

\* left > right on the results of Date.parse: false when either is NaN
LaterThan(left, right) == left.valid /\ right.valid /\ left.ms > right.ms

\* Object.values / getAllFromIndex of a store
RECURSIVE NodesFrom(_, _)
NodesFrom(store, i) ==
  IF i > Len(Ids) THEN <<>>
  ELSE (IF Ids[i] \in DOMAIN store THEN <<[id |-> Ids[i], version |-> store[Ids[i]]]>>
        ELSE <<>>) \o NodesFrom(store, i + 1)

NodesOf(store) == NodesFrom(store, 1)

\* offline-repository.ts getById (part_005:224-228) and workspace.nodes[id]
GetById(store, id) == IF id \in DOMAIN store THEN <<store[id]>> ELSE <<>>

Put(store, node) == (node.id :> node.version) @@ store

\* part_005:281-298
mergeNodeConflict(local, remote) ==
  IF local = <<>> THEN remote
  ELSE IF LaterThan(remote.version.updatedAt, local[1].updatedAt) THEN remote
  ELSE IF LaterThan(local[1].updatedAt, remote.version.updatedAt)
    THEN [id |-> remote.id, version |-> local[1]]
  ELSE remote

\* storage.js:52-67
resolveConflict(existing, incoming) ==
  IF existing = <<>> THEN incoming
  ELSE IF LaterThan(incoming.version.updatedAt, existing[1].updatedAt) THEN incoming
  ELSE IF LaterThan(existing[1].updatedAt, incoming.version.updatedAt)
    THEN [id |-> incoming.id, version |-> existing[1]]
  ELSE incoming

\* storage.js:19-41
RECURSIVE upsertNodes(_, _)
upsertNodes(store, incomings) ==
  IF incomings = <<>> THEN store
  ELSE upsertNodes(Put(store, resolveConflict(GetById(store, Head(incomings).id),
                                              Head(incomings))),
                   Tail(incomings))

\* storage.js:8-17 and part_005:257-261; since is null or a timestamp
UpdatedSince(store, since) ==
  IF since = <<>> THEN NodesOf(store)
  ELSE SelectSeq(NodesOf(store), LAMBDA node : LaterThan(node.version.updatedAt, since[1]))

\* part_005:270-277
RECURSIVE upsertMany(_, _)
upsertMany(store, nodes) ==
  IF nodes = <<>> THEN store ELSE upsertMany(Put(store, Head(nodes)), Tail(nodes))

SyncStep ==
  /\ UNCHANGED <<allNodes, allEdges, layoutConfig, callsLeft>>
  /\ UNCHANGED ctxVars
  /\ UNCHANGED <<nodePositions, hierarchyParents, hierarchyChildren, relationEdges,
                 crossWorkspaceEdges, lpc, call, hierKeys, posLog, layoutResult>>
  /\ UNCHANGED graphVars

\* Time passes
Tick ==
  /\ clock < MaxClock
  /\ clock' = clock + 1
  /\ UNCHANGED <<localDb, serverDb, lastSync, spc, changes, remoteNodes, merged, serverTime>>
  /\ SyncStep

\* The ids some device has generated so far
KnownIds ==
  DOMAIN localDb \cup DOMAIN serverDb
    \cup {node.id : node \in Range(changes) \cup Range(remoteNodes) \cup Range(merged)}

\* App.tsx:189: a node created now, under a new id, is saved
LocalSave(id) ==
  /\ id \notin KnownIds
  /\ localDb' = Put(localDb, [id |-> id,
                              version |-> [updatedAt |-> Epoch(clock), by |-> "here"]])
  /\ UNCHANGED <<serverDb, lastSync, spc, changes, remoteNodes, merged, serverTime, clock>>
  /\ SyncStep

\* part_005:233-251: repo.update stamps the node with the time of the edit
LocalUpdate(id) ==
  /\ id \in DOMAIN localDb
  /\ localDb' = Put(localDb, [id |-> id,
                              version |-> [updatedAt |-> Epoch(clock), by |-> "here"]])
  /\ UNCHANGED <<serverDb, lastSync, spc, changes, remoteNodes, merged, serverTime, clock>>
  /\ SyncStep

\* POST /sync/push from another device (index.js:37-50)
RemotePush(incoming) ==
  /\ serverDb' = upsertNodes(serverDb, <<incoming>>)
  /\ UNCHANGED <<localDb, lastSync, spc, changes, remoteNodes, merged, serverTime, clock>>
  /\ SyncStep

\* part_006:17-18: syncWorkspace reads the local changes
SyncBegin ==
  /\ spc = "idle"
  /\ changes' = UpdatedSince(localDb, lastSync)
  /\ spc' = "push"
  /\ UNCHANGED <<localDb, serverDb, lastSync, remoteNodes, merged, serverTime, clock>>
  /\ SyncStep

\* part_006:20-27 and index.js:37-50: the server takes the pushed changes
ServerPush ==
  /\ spc = "push"
  /\ serverDb' = upsertNodes(serverDb, changes)
  /\ changes' = <<>>
  /\ spc' = "pull"
  /\ UNCHANGED <<localDb, lastSync, remoteNodes, merged, serverTime, clock>>
  /\ SyncStep

\* part_006:29-47 and index.js:20-35: the server answers the pull
ServerPull ==
  /\ spc = "pull"
  /\ remoteNodes' = UpdatedSince(serverDb, lastSync)
  /\ serverTime' = clock
  /\ merged' = <<>>
  /\ spc' = "merge"
  /\ UNCHANGED <<localDb, serverDb, lastSync, changes, clock>>
  /\ SyncStep

\* part_006:20, 35, 41-43: a request fails, the run ends
SyncFails ==
  /\ spc \in {"push", "pull"}
  /\ spc' = "idle"
  /\ changes' = <<>>
  /\ UNCHANGED <<localDb, serverDb, lastSync, remoteNodes, merged, serverTime, clock>>
  /\ SyncStep

\* part_006:50-53: one iteration of the merge loop
MergeStep ==
  /\ spc = "merge"
  /\ remoteNodes # <<>>
  /\ merged' = Append(merged, mergeNodeConflict(GetById(localDb, Head(remoteNodes).id),
                                                Head(remoteNodes)))
  /\ remoteNodes' = Tail(remoteNodes)
  /\ UNCHANGED <<localDb, serverDb, lastSync, spc, changes, serverTime, clock>>
  /\ SyncStep

\* part_006:55-60: the merged nodes are written, lastSync is set
SyncEnd ==
  /\ spc = "merge"
  /\ remoteNodes = <<>>
  /\ localDb' = upsertMany(localDb, merged)
  /\ lastSync' = <<Epoch(serverTime)>>
  /\ merged' = <<>>
  /\ spc' = "idle"
  /\ UNCHANGED <<serverDb, changes, remoteNodes, serverTime, clock>>
  /\ SyncStep

\* What another device may push: any node, any time, or a time that does not parse
RemoteChanges ==
  {[id |-> id, version |-> [updatedAt |-> at, by |-> "there"]] :
     id \in SyncNodeIds, at \in {Epoch(ms) : ms \in 0..MaxClock} \cup {NoDate}}

NextSync ==
  \/ Tick
  \/ \E id \in SyncNodeIds : LocalSave(id)
  \/ \E id \in SyncNodeIds : LocalUpdate(id)
  \/ \E incoming \in RemoteChanges : RemotePush(incoming)
  \/ SyncBegin
  \/ ServerPush
  \/ ServerPull
  \/ SyncFails
  \/ MergeStep
  \/ SyncEnd

InitSync ==
  /\ allNodes = <<>>
  /\ options = <<>>
  /\ CtxIdle
  /\ LayoutIdle
  /\ AppEngine
  /\ GraphIdle
  /\ SyncIdle

SpecSync == InitSync /\ [][NextSync]_vars

\* The stored version of id in store is not replaced by an earlier one, nor by
\* one whose time cannot be compared.
NotEarlier(before, after) ==
  \A id \in DOMAIN before :
    /\ id \in DOMAIN after
    /\ before[id].updatedAt.valid =>
         /\ after[id].updatedAt.valid
         /\ after[id].updatedAt.ms >= before[id].updatedAt.ms

\* A step that stores the outcome of merges: upsertNodes on the server,
\* upsertMany of the merged list on this device.
MergeStored ==
  /\ NotEarlier(serverDb, serverDb')
  /\ (spc = "merge" /\ spc' = "idle") => NotEarlier(localDb, localDb')

(***************************************************************************)
(* C30: sync conflicts are resolved last-write-wins by updatedAt; across   *)
(* any sequence of merges the stored updatedAt of a node id never          *)
(* decreases, on the server and in the local repository.                   *)
(***************************************************************************)
C30_LastWriteWins == [][MergeStored]_vars

\* Every timestamp stored or in flight parses.
ParsedEverywhere ==
  /\ \A id \in DOMAIN serverDb : serverDb[id].updatedAt.valid
  /\ \A id \in DOMAIN localDb : localDb[id].updatedAt.valid
  /\ \A node \in Range(changes) \cup Range(remoteNodes) \cup Range(merged) :
       node.version.updatedAt.valid

\* With timestamps that parse, the merge keeps the strictly later version, and
\* the remote one on a tie or when there is no local one.
MergeAmongParsed ==
  \A remote \in RemoteChanges, ms \in 0..MaxClock :
    LET local == [updatedAt |-> Epoch(ms), by |-> "here"]
        kept == IF ms > remote.version.updatedAt.ms
                  THEN [id |-> remote.id, version |-> local] ELSE remote
    IN  /\ mergeNodeConflict(<<>>, remote) = remote
        /\ resolveConflict(<<>>, remote) = remote
        /\ remote.version.updatedAt.valid =>
             /\ mergeNodeConflict(<<local>>, remote) = kept
             /\ resolveConflict(<<local>>, remote) = kept

\* With timestamps that parse, the server's stored updatedAt never decreases.
ServerAmongParsed ==
  [][ParsedEverywhere /\ ParsedEverywhere' => NotEarlier(serverDb, serverDb')]_vars

\* The same for the local repository when syncWorkspace writes the merged list.
LocalAmongParsed ==
  [][ParsedEverywhere /\ ParsedEverywhere' /\ spc = "merge" /\ spc' = "idle"
       => NotEarlier(localDb, localDb')]_vars

\* A remote version was merged with a later local one and the local one kept.
MergeAmongParsedReached ==
  /\ ParsedEverywhere
  /\ spc = "merge"
  /\ \E i \in DOMAIN merged : merged[i].version.by = "here"

====
